---- MODULE Spec2Model ----
(***************************************************************************)
(* The agent server of trifle-cli (src/mcp.go): the JSON-RPC loop serveMCP, *)
(* its dispatcher handleMCPRequest, the tool and resource handlers and the  *)
(* catalogs, over the remote (api) and the local backends.                  *)
(*                                                                          *)
(* Conventions.  A Go string is a TLA+ string.  A pointer or an omitted     *)
(* JSON member is a sequence of length 0 (nil, omitted) or 1.  A Go error   *)
(* is its message, "" standing for nil.  Library functions on strings       *)
(* (strings.TrimSpace, strings.ToLower, time.Parse, regexp.MatchString,     *)
(* url.Parse) are given by their values on the strings the model uses.      *)
(***************************************************************************)
EXTENDS Integers, Sequences, FiniteSets, TLC

VARIABLES
    state,      \* mcpState: Driver, API, Local (src/mcp.go:149-153)
    pc,         \* position of serveMCP: "decode", "dispatch", "encode", or the
                \* return it left by: "eof", "undecodable", "exit"
    nread,      \* number of requests decoded from stdin so far
    req,        \* the request of the current iteration (src/mcp.go:161)
    handled,    \* handleMCPRequest was called for req
    calls,      \* backend calls issued while handling req, in order
    response,   \* the response of the current iteration, <<>> when nil
    out,        \* stdout: one entry per line written by the encoder
    ret         \* return value of serveMCP: "" while running, "nil", "error"

vars == <<state, pc, nread, req, handled, calls, response, out, ret>>

\* Number of requests a run of the model reads from stdin.
MaxRequests == 2

\* Length of the lists the series library reports for one query: the available
\* paths, the keys of a reshaped result and the aggregated values.
MaxPaths == 2

\* Length of the list of granularities a source or a local configuration offers.
MaxGranularities == 3

(***************************************************************************)
(* Strings and library functions                                            *)
(***************************************************************************)

\* strings.TrimSpace on the strings of the model.
TrimSpace(s) ==
    CASE s = " " -> ""
      [] s = "  " -> ""
      [] s = " api " -> "api"
      [] s = " k " -> "k"
      [] s = " 1h " -> "1h"
      [] s = " 2024-01-01T00:00:00Z " -> "2024-01-01T00:00:00Z"
      [] s = " not found\n" -> "not found"
      [] s = " off " -> "off"
      [] s = " , " -> ","
      [] s = " SQLite , mysql" -> "SQLite , mysql"
      [] s = "SQLite " -> "SQLite"
      [] s = " mysql" -> "mysql"
      [] s = " 1h, ,1d " -> "1h, ,1d"
      [] s = " metrics: " -> "metrics:"
      [] OTHER -> s

\* strings.ToLower on the strings of the model.
ToLower(s) ==
    CASE s = "API" -> "api"
      [] s = "Api" -> "api"
      [] s = "SQLite" -> "sqlite"
      [] s = "MongoDB" -> "mongodb"
      [] s = "1H" -> "1h"
      [] s = "SUM" -> "sum"
      [] s = "ON" -> "on"
      [] s = "SQL logic error: no such table: metrics" ->
             "sql logic error: no such table: metrics"
      [] s = "ERROR: relation \"metrics\" does not exist" ->
             "error: relation \"metrics\" does not exist"
      [] s = "Error 1146 (42S02): Table 'db.metrics' doesn't exist" ->
             "error 1146 (42s02): table 'db.metrics' doesn't exist"
      [] s = "Table 'db.trifle_stats' doesn't exist" ->
             "table 'db.trifle_stats' doesn't exist"
      [] s = "NO SUCH TABLE: metrics" -> "no such table: metrics"
      [] OTHER -> s

\* strings.EqualFold(a, b): equality under Unicode case folding.
EqualFold(a, b) == ToLower(a) = ToLower(b)

\* time.Now().UTC() formatted as RFC3339, and the same instant minus 24 hours.
NowRFC3339 == "2024-01-03T00:00:00Z"
DayBeforeNowRFC3339 == "2024-01-02T00:00:00Z"

\* The strings of the model that time.Parse(time.RFC3339Nano, s) accepts.
ParsesRFC3339(s) ==
    s \in {"2024-01-01T00:00:00Z", "2024-01-02T00:00:00Z", "2024-01-03T00:00:00Z",
           "2024-01-02T15:04:05+00:00"}

\* The strings of the model that granularityPattern, ^\d+(s|m|h|d|w|mo|q|y)$,
\* matches.
granularityPattern(s) == s \in {"1h", "1d", "1m", "15m", "1mo", "2w"}

(***************************************************************************)
(* Requests                                                                 *)
(***************************************************************************)

\* A JSON value as the decoder leaves it in a map[string]any: its type and its text.
Absent == [t |-> "absent", v |-> ""]
Str(s) == [t |-> "string", v |-> s]
Obj(s) == [t |-> "object", v |-> s]
Num(s) == [t |-> "number", v |-> s]

ArgNames == {"key", "value_path", "aggregator", "from", "to", "granularity",
             "slices", "values", "at", "id"}

NoArgs == [a \in ArgNames |-> Absent]

WithArgs(f) == [a \in ArgNames |-> IF a \in DOMAIN f THEN f[a] ELSE Absent]

\* Every argument a tool reads, well formed.
GoodArgs ==
    WithArgs([key |-> Str("k"), value_path |-> Str("p"), aggregator |-> Str("sum"),
              from |-> Str("2024-01-01T00:00:00Z"), to |-> Str("2024-01-02T00:00:00Z"),
              granularity |-> Str("1h"), slices |-> Num("1"),
              values |-> Obj("map[count:1]"), at |-> Str("2024-01-02T15:04:05+00:00"),
              id |-> Str("t1")])

\* Only the required arguments, so that time range and granularity are defaulted.
RequiredArgs ==
    WithArgs([key |-> Str("k"), value_path |-> Str("p"), aggregator |-> Str("sum"),
              values |-> Obj("map[count:1]"), id |-> Str("t1")])

\* from without to, a granularity that does not match and values that is no object.
BadArgs ==
    WithArgs([key |-> Str("k"), value_path |-> Str("p*"), aggregator |-> Str("sum"),
              from |-> Str("2024-01-01T00:00:00Z"), granularity |-> Str("hourly"),
              values |-> Str("x"), at |-> Str("yesterday"), id |-> Str(" ")])

ArgSets == {NoArgs, GoodArgs, RequiredArgs, BadArgs}

KnownTools == {"list_metrics", "fetch_series", "aggregate_series", "format_timeline",
               "format_category", "write_metric", "list_transponders",
               "delete_transponder"}

NoId == ""
Ids == {"1", "2"}

KnownMethods == {"initialize", "initialized", "shutdown", "exit", "tools/list",
                 "tools/call", "resources/list", "resources/read"}
Methods == KnownMethods \cup {"notifications/cancelled"}

\* req.Params: absent, a JSON value that no params struct decodes (a string), or
\* an object; the fields an object does not carry are the zero values.
Params(kind, protocolVersion, name, arguments, uri) ==
    [kind |-> kind, protocolVersion |-> protocolVersion, name |-> name,
     arguments |-> arguments, uri |-> uri]

NoParams == Params("absent", "", "", NoArgs, "")
BadParams == Params("undecodable", "", "", NoArgs, "")
EmptyObject == Params("object", "", "", NoArgs, "")

Uris == {"trifle://source", "trifle://transponders", "trifle://metrics",
         "trifle://metrics/k", "trifle://metrics?granularity=hourly",
         "trifle://metrics/k?from=2024-01-01T00:00:00Z", "http://source",
         "trifle://keys", "%zz"}

ParamsOf(method) ==
    {NoParams} \cup
    CASE method = "initialize" ->
            {BadParams, EmptyObject, Params("object", "2025-03-26", "", NoArgs, "")}
      [] method = "tools/call" ->
            {BadParams, EmptyObject}
            \cup {Params("object", "", n, a, "") :
                    n \in KnownTools \cup {"drop_metrics"}, a \in ArgSets}
      [] method = "resources/read" ->
            {BadParams, EmptyObject} \cup {Params("object", "", "", NoArgs, u) : u \in Uris}
      [] OTHER -> {}

Request(jsonrpc, id, method, params) ==
    [jsonrpc |-> jsonrpc, id |-> id, method |-> method, params |-> params]

\* The envelopes stdin can deliver: marked ones with every params of their method,
\* and unmarked ones (jsonrpc absent or empty) of every method.
Requests ==
    UNION {{Request(j, i, m, p) : p \in ParamsOf(m)} :
             <<j, i, m>> \in {"2.0"} \X ({NoId} \cup Ids) \X Methods}
    \cup {Request("", i, m, NoParams) : i \in {NoId, "1"}, m \in Methods}

(***************************************************************************)
(* Session state                                                            *)
(***************************************************************************)

\* isLocalDriver: the names that select a local backend.
isLocalDriver(name) ==
    ToLower(TrimSpace(name)) \in {"sqlite", "postgres", "mysql", "redis", "mongo", "mongodb"}

\* normalizeDriverName: trimmed, lower-cased, mongodb folded into mongo.
normalizeDriverName(name) ==
    LET value == ToLower(TrimSpace(name))
    IN  IF value = "mongodb" THEN "mongo" ELSE value

\* strings.Split(s, ",") on the allow-lists of the model.
SplitComma(s) ==
    CASE s = "," -> <<"", "">>
      [] s = "sqlite,postgres" -> <<"sqlite", "postgres">>
      [] s = "sqlite,mysql" -> <<"sqlite", "mysql">>
      [] s = "SQLite , mysql" -> <<"SQLite ", " mysql">>
      [] s = "1m,1d" -> <<"1m", "1d">>
      [] s = "1h, ,1d" -> <<"1h", " ", "1d">>
      [] OTHER -> <<s>>

\* normalizeStringList: the trimmed values that are not blank.
normalizeStringList(values) ==
    SelectSeq([i \in 1..Len(values) |-> TrimSpace(values[i])], LAMBDA v : v # "")

\* Mutant: a driver named in the allow-list buffers whatever the mode says.
applyBufferOptions_AllowListEnables(cfg, opts, driverName) ==
    LET mode == ToLower(TrimSpace(opts.BufferMode))
        byMode == IF mode \in {"always", "on", "enabled", "true", "yes"} THEN TRUE
                  ELSE IF mode \in {"never", "off", "disabled", "false", "no"} THEN FALSE
                  ELSE driverName \in {"sqlite", "postgres", "mysql"}
        allowed == normalizeStringList(SplitComma(TrimSpace(opts.BufferDrivers)))
        matched == \E i \in 1..Len(allowed) : normalizeDriverName(allowed[i]) = driverName
    IN  [BufferDuration |-> opts.BufferDuration, BufferSize |-> opts.BufferSize,
         BufferAggregate |-> opts.BufferAggregate, BufferAsync |-> opts.BufferAsync,
         BufferEnabled |-> IF Len(allowed) > 0 THEN byMode \/ matched ELSE byMode]

\* applyBufferOptions: the buffer settings of the configuration afterwards.
applyBufferOptions(cfg, opts, driverName) ==
    LET mode == ToLower(TrimSpace(opts.BufferMode))
        byMode == IF mode \in {"always", "on", "enabled", "true", "yes"} THEN TRUE
                  ELSE IF mode \in {"never", "off", "disabled", "false", "no"} THEN FALSE
                  ELSE driverName \in {"sqlite", "postgres", "mysql"}
        allowed == normalizeStringList(SplitComma(TrimSpace(opts.BufferDrivers)))
        matched == \E i \in 1..Len(allowed) : normalizeDriverName(allowed[i]) = driverName
    IN  [BufferDuration |-> opts.BufferDuration, BufferSize |-> opts.BufferSize,
         BufferAggregate |-> opts.BufferAggregate, BufferAsync |-> opts.BufferAsync,
         BufferEnabled |-> IF Len(allowed) > 0 THEN byMode /\ matched ELSE byMode]

\* localDriverRuntime as loadLocalConfig builds it; Config holds the effective
\* granularities of the triflestats.Config.
LocalRuntime(driver, table, granularities) ==
    [Config |-> <<[Granularities |-> granularities]>>, DriverName |-> driver,
     TableName |-> table]

\* parseGranularities: the trimmed members of a comma-separated list that are
\* not blank; nil for a blank input.
parseGranularities(input) ==
    IF TrimSpace(input) = "" THEN <<>>
    ELSE normalizeStringList(SplitComma(TrimSpace(input)))

\* parseWeekday: the weekday and the error for a word that names none.
parseWeekday(input) ==
    LET word == ToLower(TrimSpace(input))
    IN  CASE word \in {"monday", "mon"} -> [value |-> "Monday", err |-> ""]
          [] word \in {"tuesday", "tue"} -> [value |-> "Tuesday", err |-> ""]
          [] word \in {"wednesday", "wed"} -> [value |-> "Wednesday", err |-> ""]
          [] word \in {"thursday", "thu"} -> [value |-> "Thursday", err |-> ""]
          [] word \in {"friday", "fri"} -> [value |-> "Friday", err |-> ""]
          [] word \in {"saturday", "sat"} -> [value |-> "Saturday", err |-> ""]
          [] word \in {"sunday", "sun"} -> [value |-> "Sunday", err |-> ""]
          [] OTHER -> [value |-> "Monday", err |-> "invalid week-start: " \o input]

\* parseJoinedIdentifier: the identifier mode and the error for an unknown one.
parseJoinedIdentifier(input) ==
    LET word == ToLower(TrimSpace(input))
    IN  CASE word \in {"full", ""} -> [value |-> "JoinedFull", err |-> ""]
          [] word = "partial" -> [value |-> "JoinedPartial", err |-> ""]
          [] word \in {"separated", "none", "null"} ->
                [value |-> "JoinedSeparated", err |-> ""]
          [] OTHER -> [value |-> "JoinedFull", err |-> "invalid joined mode: " \o input]

\* firstNonEmpty of three values: the first that is not blank, trimmed.
firstNonEmpty(a, b, c) ==
    IF TrimSpace(a) # "" THEN TrimSpace(a)
    ELSE IF TrimSpace(b) # "" THEN TrimSpace(b)
    ELSE IF TrimSpace(c) # "" THEN TrimSpace(c)
    ELSE ""

\* The TableName of a triflestats SQL driver made for a table: the name it was
\* given, trifle_stats for none.
DriverTableName(table) == IF table = "" THEN "trifle_stats" ELSE table

\* driverOptions as addDriverFlags leaves them without flags, environment or
\* config file; the buffer sizes are those of triflestats.DefaultConfig.
DefaultDriverOptions ==
    [Driver |-> "api", DBPath |-> "", Table |-> "trifle_stats", Collection |-> "",
     Prefix |-> "", Joined |-> "full", Separator |-> "::", TimeZone |-> "GMT",
     BeginningOfWeek |-> "monday", Granularities |-> "", BufferMode |-> "auto",
     BufferDrivers |-> "", BufferDuration |-> 1, BufferSize |-> 256,
     BufferAggregate |-> TRUE, BufferAsync |-> FALSE]

\* loadLocalConfig: the runtime of a local driver, or the error; open is the
\* error of opening the store (sql.Open, buildRedisClient, buildMongoCollection).
loadLocalConfig(opts, open) ==
    LET driverName == normalizeDriverName(opts.Driver)
        joined == parseJoinedIdentifier(opts.Joined)
        weekStart == parseWeekday(opts.BeginningOfWeek)
        default == [TimeZone |-> opts.TimeZone, Separator |-> opts.Separator,
                    JoinedIdentifier |-> joined.value,
                    BeginningOfWeek |-> weekStart.value,
                    Granularities |-> parseGranularities(opts.Granularities),
                    BufferDuration |-> 1, BufferSize |-> 256, BufferAggregate |-> TRUE,
                    BufferAsync |-> FALSE, BufferEnabled |-> FALSE]
        cfg == applyBufferOptions(default, opts, driverName) @@ default
        tableName ==
            CASE driverName \in {"sqlite", "postgres", "mysql"} -> DriverTableName(opts.Table)
              [] driverName = "redis" -> TrimSpace(opts.Prefix)
              [] OTHER -> firstNonEmpty(opts.Collection, opts.Table, "trifle_stats")
    IN  IF ~isLocalDriver(driverName)
        THEN [err |-> "unsupported local driver: " \o opts.Driver, runtime |-> <<>>]
        ELSE IF joined.err # "" THEN [err |-> joined.err, runtime |-> <<>>]
        ELSE IF weekStart.err # "" THEN [err |-> weekStart.err, runtime |-> <<>>]
        ELSE IF driverName = "sqlite" /\ TrimSpace(opts.DBPath) = ""
        THEN [err |-> "--db is required for sqlite driver", runtime |-> <<>>]
        ELSE IF open # "" THEN [err |-> open, runtime |-> <<>>]
        ELSE [err |-> "",
              runtime |-> <<[Config |-> <<cfg>>, DriverName |-> driverName,
                             TableName |-> tableName]>>]

\* resolveSourceConfig: the error for a source the config file does not name.
resolveSourceConfig(sources, name) ==
    IF sources = {} THEN ""
    ELSE IF name \notin sources THEN "unknown source \"" \o name \o "\" in config"
    ELSE ""

\* resolveCommandConfig: the error of reading the config file or the --config
\* and --source flags (config.err), or of looking the source up.
resolveCommandConfig(config) ==
    IF config.err # "" THEN config.err
    ELSE resolveSourceConfig(config.Sources, config.SourceName)

\* normalizeBaseURL on the base URLs of the model.
normalizeBaseURL(baseURL) ==
    CASE TrimSpace(baseURL) = "" -> ""
      [] baseURL = "https://app.trifle.io/" -> "https://app.trifle.io"
      [] baseURL = "https://app.trifle.io" -> "https://app.trifle.io"
      [] baseURL = "%zz" -> "http://%zz"

\* newClient, that is api.New: the error for a base URL that is missing or
\* that url.ParseRequestURI rejects.
newClient(opts) ==
    LET normalized == normalizeBaseURL(opts.BaseURL)
    IN  IF normalized = "" THEN "missing base URL"
        ELSE IF normalized = "http://%zz"
        THEN "invalid base URL: parse \"http://%zz\": invalid URL escape \"%zz\""
        ELSE ""

\* ensureToken without a prompt: the error for a missing token.
ensureToken(token) ==
    IF token # "" THEN ""
    ELSE "missing token: set --token, TRIFLE_TOKEN, or api.token in config"

\* One start of the server: what the config file holds (config), commonOptions
\* (opts) and driverOptions (driverOpts) as the flags leave them, and the error
\* of opening the local store (open). This one succeeds for every driver: a
\* config file that names the source, a base URL and a token, a database path
\* and a reachable store.
DefaultRun ==
    [config |-> [err |-> "", Sources |-> {"api", "local"}, SourceName |-> "api"],
     opts |-> [BaseURL |-> "https://app.trifle.io", Token |-> "t"],
     driverOpts |-> [DefaultDriverOptions EXCEPT !.DBPath = ":memory:",
                                                !.Granularities = "1m,1d"],
     open |-> ""]

\* runMCP up to serveMCP: the error it exits with (exitError), or the mcpState
\* the loop is started with.
runMCP(run) ==
    LET rc == resolveCommandConfig(run.config)
        driverName == IF ToLower(TrimSpace(run.driverOpts.Driver)) = "" THEN "api"
                      ELSE ToLower(TrimSpace(run.driverOpts.Driver))
        local == loadLocalConfig(run.driverOpts, run.open)
    IN  IF rc # "" THEN [err |-> rc, state |-> <<>>]
        ELSE IF isLocalDriver(driverName)
        THEN IF local.err # "" THEN [err |-> local.err, state |-> <<>>]
             ELSE [err |-> "",
                   state |-> <<[Driver |-> local.runtime[1].DriverName, API |-> FALSE,
                                Local |-> local.runtime]>>]
        ELSE IF ensureToken(run.opts.Token) # ""
        THEN [err |-> ensureToken(run.opts.Token), state |-> <<>>]
        ELSE IF newClient(run.opts) # ""
        THEN [err |-> newClient(run.opts), state |-> <<>>]
        ELSE [err |-> "", state |-> <<[Driver |-> "api", API |-> TRUE, Local |-> <<>>]>>]

\* The --driver values the model starts the server with, and the sessions
\* serveMCP is then called with.
DriverFlags == {"", "API", "SQLite"}
Sessions ==
    {runMCP([DefaultRun EXCEPT !.driverOpts.Driver = d]).state[1] : d \in DriverFlags}

(***************************************************************************)
(* Backends                                                                 *)
(***************************************************************************)

Null == [t |-> "null", v |-> ""]

\* A row of the values of a series: its "keys" member, which is absent, null,
\* some other JSON value, or an object of counters given as pairs.
Row(keys) == [keys |-> keys]
Counters(pairs) == [t |-> "object", v |-> pairs]
NoCounters(t) == [t |-> t, v |-> <<>>]

\* What the series library reports of a fetched series: the number of timestamps,
\* AvailablePaths, the Aggregate* values of the value path and the keys of the
\* reshaped timeline or category.
\* values holds, per timestamp, the row.
NoSeries == [at |-> 0, values |-> <<>>, available |-> <<>>, aggregate |-> <<>>,
             formatted |-> <<>>]
OnePoint == [at |-> 1, values |-> <<Row(Counters(<<<<"signup", 2>>, <<"login", 1>>>>))>>,
             available |-> <<"p">>, aggregate |-> <<Num("5")>>, formatted |-> <<"p">>]
TwoPoints == [at |-> 2,
              values |-> <<Row(Counters(<<<<"signup", 2>>>>)),
                           Row(Counters(<<<<"login", 1>>, <<"signup", 3>>>>))>>,
              available |-> <<"q", "p">>, aggregate |-> <<Null, Num("5")>>,
              formatted |-> <<"q", "p", "r">>]

\* The metric keys of the model in the order of sort.Strings.
SortedStrings == <<"login", "p", "q", "r", "signup">>

RECURSIVE SumSeq(_)
SumSeq(ns) == IF ns = <<>> THEN 0 ELSE Head(ns) + SumSeq(Tail(ns))

\* counts[key] of summarizeKeys: the sum of the key's counters over all rows
\* whose "keys" member is a map.
KeyCount(values, key) ==
    SumSeq([i \in 1..Len(values) |->
              IF values[i].keys.t # "object" THEN 0
              ELSE SumSeq([j \in 1..Len(values[i].keys.v) |->
                             IF values[i].keys.v[j][1] = key THEN values[i].keys.v[j][2]
                             ELSE 0])])

KeysOf(values) ==
    UNION {{values[i].keys.v[j][1] : j \in 1..Len(values[i].keys.v)} :
             i \in {k \in 1..Len(values) : values[k].keys.t = "object"}}

\* summarizeKeys: one entry per metric key, sorted by key.
summarizeKeys(values) ==
    LET keys == SelectSeq(SortedStrings, LAMBDA k : k \in KeysOf(values))
    IN  [i \in 1..Len(keys) |->
            [metric_key |-> keys[i], observations |-> KeyCount(values, keys[i])]]

\* summarizeSystemKeys: the same over the rows of a local series; a null
\* "keys" member is skipped before the type test.
summarizeSystemKeys(values) ==
    LET rows == SelectSeq(values, LAMBDA row : row.keys.t \notin {"absent", "null"})
        keys == SelectSeq(SortedStrings, LAMBDA k : k \in KeysOf(rows))
    IN  [i \in 1..Len(keys) |->
            [metric_key |-> keys[i], observations |-> KeyCount(rows, keys[i])]]

\* An HTTP exchange as c.http.Do and io.ReadAll leave it: the transport error
\* ("" when a response arrived), the status code, the error of reading the
\* body ("" when it was read) and the body.
HTTPResponse(transport, status, read, body) ==
    [transport |-> transport, StatusCode |-> status, read |-> read, Body |-> body]

\* One call of doJSON: the method, whether a payload is given, the error of
\* json.Marshal on it, the error of http.NewRequestWithContext, and the exchange.
JSONCall(method, hasPayload, marshal, build, resp) ==
    [method |-> method, hasPayload |-> hasPayload, marshal |-> marshal,
     build |-> build, resp |-> resp]

\* json.Decoder.Decode on the bodies of the model: the error, "" for valid JSON.
\* Leading white space is skipped, so "not json" and " not found\n" both fail
\* on the second letter of what starts like null.
jsonDecode(body) ==
    IF body \in {"not json", " not found\n"}
    THEN "invalid character 'o' in literal null (expecting 'u')"
    ELSE ""

\* (*api.Error).Error
apiError(status, body) ==
    IF body = "" THEN "api request failed with status " \o ToString(status)
    ELSE "api request failed with status " \o ToString(status) \o ": " \o body

\* Client.doJSON: the error it returns, what it decoded into out (<<>> when out
\* was left alone) and whether c.http.Do was called; hasOut is out != nil.
doJSON(call, hasOut) ==
    LET resp == call.resp
    IN  IF call.method # "GET" /\ call.hasPayload /\ call.marshal # ""
        THEN [err |-> "encode payload: " \o call.marshal, out |-> <<>>, calls |-> <<>>]
        ELSE IF call.build # ""
        THEN [err |-> "build request: " \o call.build, out |-> <<>>, calls |-> <<>>]
        ELSE IF resp.transport # ""
        THEN [err |-> "request failed: " \o resp.transport, out |-> <<>>,
              calls |-> <<"Do">>]
        ELSE IF resp.read # ""
        THEN [err |-> "read response: " \o resp.read, out |-> <<>>, calls |-> <<"Do">>]
        ELSE IF resp.StatusCode >= 400
        THEN [err |-> apiError(resp.StatusCode, TrimSpace(resp.Body)), out |-> <<>>,
              calls |-> <<"Do">>]
        ELSE IF ~hasOut \/ resp.Body = ""
        THEN [err |-> "", out |-> <<>>, calls |-> <<"Do">>]
        ELSE IF jsonDecode(resp.Body) # ""
        THEN [err |-> "decode response: " \o jsonDecode(resp.Body), out |-> <<>>,
              calls |-> <<"Do">>]
        ELSE [err |-> "", out |-> <<resp.Body>>, calls |-> <<"Do">>]

\* What the backend answers while one request is handled: the source metadata
\* call (remote only), the operation itself (its error, "" when it succeeds),
\* the shape of the data member of a query response, and the series.
Reply(source, default, available, op, shape, series) ==
    [source |-> source, DefaultGranularity |-> default,
     AvailableGranularities |-> available, op |-> op, shape |-> shape,
     series |-> series]

\* The answers of the model: data, no data, a source call that times out, an
\* operation that fails on a missing table, and a query response without data.
Replies ==
    {Reply("", "", <<"1m", "1d">>, "", "object", OnePoint),
     Reply("", "2w", <<"1h">>, "", "object", NoSeries),
     Reply("context deadline exceeded", "", <<>>, "", "object", OnePoint),
     Reply("", "", <<>>, "no such table: trifle_stats", "object", TwoPoints),
     Reply("", "", <<>>, "", "missing", OnePoint)}

\* The result of an orchestrator call: the payload (<<>> on failure), the error
\* and the backend calls it issued.
Fail(err, issued) == [payload |-> <<>>, err |-> err, calls |-> issued]
Done(payload, issued) == [payload |-> <<payload>>, err |-> "", calls |-> issued]

systemMetricsKey == "__system__key__"

\* getStringArg: "" for an absent or null argument, otherwise its text.
getStringArg(args, key) ==
    IF args[key].t \in {"absent", "null"} THEN "" ELSE args[key].v

\* strconv.Atoi and float64-to-int conversion on the numbers of the model.
Atoi(s) ==
    CASE s = "0" -> <<0>>
      [] s = "1" -> <<1>>
      [] s = "3" -> <<3>>
      [] s = "-2" -> <<-2>>
      [] OTHER -> <<>>

\* getIntArg: the integer value of a number or numeric string, else the fallback.
getIntArg(args, key, fallback) ==
    IF args[key].t \in {"number", "string"} /\ Atoi(TrimSpace(args[key].v)) # <<>>
    THEN Atoi(TrimSpace(args[key].v))[1]
    ELSE fallback

\* Mutant: every value passes as a timestamp.
validateTimestamp_AcceptsAll(label, value) == ""

\* validateTimestamp: the error for a value that is no RFC3339 timestamp.
validateTimestamp(label, value) ==
    IF ParsesRFC3339(value) THEN ""
    ELSE label \o " must be RFC3339 (e.g. 2024-01-02T15:04:05Z or 2024-01-02T15:04:05+00:00)"

\* resolveTimeRange: both blank gives the last 24 hours, one blank is an error.
resolveTimeRange(from0, to0) ==
    LET from == TrimSpace(from0)
        to == TrimSpace(to0)
    IN  IF from = "" /\ to = ""
        THEN [from |-> DayBeforeNowRFC3339, to |-> NowRFC3339, err |-> ""]
        ELSE IF from = "" \/ to = ""
        THEN [from |-> "", to |-> "", err |-> "from and to are required together (RFC3339, e.g. 2024-01-02T15:04:05Z)"]
        ELSE IF validateTimestamp("from", from) # ""
        THEN [from |-> "", to |-> "", err |-> validateTimestamp("from", from)]
        ELSE IF validateTimestamp("to", to) # ""
        THEN [from |-> "", to |-> "", err |-> validateTimestamp("to", to)]
        ELSE [from |-> from, to |-> to, err |-> ""]

\* Mutant: the value is matched and returned as it was given.
validateGranularity_AsGiven(value) ==
    IF value = "" THEN [value |-> "", err |-> "granularity is required"]
    ELSE IF ~granularityPattern(value)
    THEN [value |-> "",
          err |-> "granularity must be <number><unit> using s, m, h, d, w, mo, q, y (e.g. 1h, 15m, 1d)"]
    ELSE [value |-> value, err |-> ""]

\* validateGranularity: the lower-cased value when it matches the pattern.
validateGranularity(value) ==
    LET normalized == ToLower(TrimSpace(value))
    IN  IF normalized = "" THEN [value |-> "", err |-> "granularity is required"]
        ELSE IF ~granularityPattern(normalized)
        THEN [value |-> "",
              err |-> "granularity must be <number><unit> using s, m, h, d, w, mo, q, y (e.g. 1h, 15m, 1d)"]
        ELSE [value |-> normalized, err |-> ""]

\* Mutant: the candidates are looked for in the order of the list.
PreferredGranularity_InListOrder(available) ==
    LET hits == SelectSeq(available, LAMBDA v : v \in {"1h", "1d"})
    IN  IF Len(hits) > 0 THEN hits[1]
        ELSE IF Len(available) > 0 THEN available[1]
        ELSE "1h"

\* The first of "1h", "1d" that the list holds, else its first element, else "1h".
PreferredGranularity(available) ==
    IF \E i \in 1..Len(available) : available[i] = "1h" THEN "1h"
    ELSE IF \E i \in 1..Len(available) : available[i] = "1d" THEN "1d"
    ELSE IF Len(available) > 0 THEN available[1]
    ELSE "1h"

\* resolveGranularity: the default of the remote source, one GetSource call.
resolveGranularity(reply) ==
    IF reply.source # ""
    THEN [value |-> "", err |-> reply.source, calls |-> <<"GetSource">>]
    ELSE IF reply.DefaultGranularity # ""
    THEN [value |-> reply.DefaultGranularity, err |-> "", calls |-> <<"GetSource">>]
    ELSE [value |-> PreferredGranularity(reply.AvailableGranularities), err |-> "",
          calls |-> <<"GetSource">>]

\* resolveGranularityValue: an explicit granularity is validated, a blank one
\* is resolved from the remote source.
resolveGranularityValue(granularity0, reply) ==
    LET granularity == TrimSpace(granularity0)
    IN  IF granularity = "" THEN resolveGranularity(reply)
        ELSE [value |-> validateGranularity(granularity).value,
              err |-> validateGranularity(granularity).err, calls |-> <<>>]

\* resolveGranularityLocal: the same against the configured granularities.
resolveGranularityLocal(granularity0, cfg) ==
    LET granularity == TrimSpace(granularity0)
    IN  IF granularity # "" THEN validateGranularity(granularity)
        ELSE [value |-> PreferredGranularity(cfg.Granularities), err |-> ""]

\* strings.Contains(strings.ToLower(message), ...) for the three signatures
\* "no such table", "doesn't exist" and "relation" on the messages of the model.
MissingObject(message) ==
    ToLower(message) \in
        {"no such table: trifle_stats", "table 'db.trifle_stats' doesn't exist",
         "relation \"trifle_stats\" does not exist",
         "sql logic error: no such table: metrics",
         "error: relation \"metrics\" does not exist",
         "error 1146 (42s02): table 'db.metrics' doesn't exist",
         "no such table: metrics", "correlation id rejected"}

\* Mutant: the command replaces the message.
maybeSuggestSetup_DropsMessage(err, driverName, targetName) ==
    LET normalizedDriver == IF normalizeDriverName(driverName) = "" THEN "sqlite"
                            ELSE normalizeDriverName(driverName)
        target == IF TrimSpace(targetName) = "" THEN "trifle_stats" ELSE targetName
    IN  IF err = "" THEN ""
        ELSE IF ~MissingObject(err) THEN err
        ELSE IF normalizedDriver \in {"sqlite", "postgres", "mysql"}
        THEN "run: trifle metrics setup --driver " \o normalizedDriver
                 \o " --table " \o target
        ELSE IF normalizedDriver = "mongo"
        THEN "run: trifle metrics setup --driver mongo"
        ELSE err

\* maybeSuggestSetup: a missing-object error gets the setup command appended.
maybeSuggestSetup(err, driverName, targetName) ==
    LET normalizedDriver == IF normalizeDriverName(driverName) = "" THEN "sqlite"
                            ELSE normalizeDriverName(driverName)
        target == IF TrimSpace(targetName) = "" THEN "trifle_stats" ELSE targetName
    IN  IF err = "" THEN ""
        ELSE IF ~MissingObject(err) THEN err
        ELSE IF normalizedDriver \in {"sqlite", "postgres", "mysql"}
        THEN err \o " (run: trifle metrics setup --driver " \o normalizedDriver
                 \o " --table " \o target \o ")"
        ELSE IF normalizedDriver = "mongo"
        THEN err \o " (run: trifle metrics setup --driver mongo)"
        ELSE err

(***************************************************************************)
(* Orchestrator calls (tools)                                               *)
(***************************************************************************)

Timeframe(from, to, granularity) ==
    [from |-> from, to |-> to, granularity |-> granularity]

\* buildTimeframePayload: the timeframe of a local query, labelled custom.
buildTimeframePayload(fromValue, toValue, granularity) ==
    [from |-> fromValue, to |-> toValue, label |-> "custom", granularity |-> granularity]

NotConfiguredAPI == "api client is not configured"
NotConfiguredLocal == "local driver is not configured"
OnlyForAPI == "transponders are only available for api drivers"

\* listMetricsPayloadLocal
listMetricsPayloadLocal(st, args, reply) ==
    IF st.Local = <<>> \/ st.Local[1].Config = <<>> THEN Fail(NotConfiguredLocal, <<>>)
    ELSE
    LET tr == resolveTimeRange(getStringArg(args, "from"), getStringArg(args, "to"))
        g == resolveGranularityLocal(getStringArg(args, "granularity"),
                                     st.Local[1].Config[1])
    IN  IF tr.err # "" THEN Fail(tr.err, <<>>)
        ELSE IF g.err # "" THEN Fail(g.err, <<>>)
        ELSE IF reply.op # ""
        THEN Fail(maybeSuggestSetup(reply.op, st.Local[1].DriverName,
                                    st.Local[1].TableName), <<"Values">>)
        ELSE Done([status |-> "ok", timeframe |-> Timeframe(tr.from, tr.to, g.value),
                   paths |-> summarizeSystemKeys(reply.series.values),
                   total_paths |-> Len(summarizeSystemKeys(reply.series.values))],
                  <<"Values">>)

\* listMetricsPayload
listMetricsPayload(st, args, reply) ==
    IF st.Local # <<>> THEN listMetricsPayloadLocal(st, args, reply)
    ELSE IF ~st.API THEN Fail(NotConfiguredAPI, <<>>)
    ELSE
    LET tr == resolveTimeRange(getStringArg(args, "from"), getStringArg(args, "to"))
        g == resolveGranularityValue(getStringArg(args, "granularity"), reply)
    IN  IF tr.err # "" THEN Fail(tr.err, <<>>)
        ELSE IF g.err # "" THEN Fail(g.err, g.calls)
        ELSE IF reply.op # "" THEN Fail(reply.op, g.calls \o <<"GetMetrics">>)
        ELSE Done([status |-> "ok", timeframe |-> Timeframe(tr.from, tr.to, g.value),
                   paths |-> summarizeKeys(reply.series.values),
                   total_paths |-> Len(summarizeKeys(reply.series.values))],
                  g.calls \o <<"GetMetrics">>)

\* Mutant: the payload names the key as it was given, blank or not.
fetchSeriesPayloadLocal_KeepsBlankKey(st, args, reply) ==
    IF st.Local = <<>> \/ st.Local[1].Config = <<>> THEN Fail(NotConfiguredLocal, <<>>)
    ELSE
    LET tr == resolveTimeRange(getStringArg(args, "from"), getStringArg(args, "to"))
        g == resolveGranularityLocal(getStringArg(args, "granularity"),
                                     st.Local[1].Config[1])
        key == TrimSpace(getStringArg(args, "key"))
        usedKey == IF key = "" THEN systemMetricsKey ELSE key
    IN  IF tr.err # "" THEN Fail(tr.err, <<>>)
        ELSE IF g.err # "" THEN Fail(g.err, <<>>)
        ELSE IF reply.op # ""
        THEN Fail(maybeSuggestSetup(reply.op, st.Local[1].DriverName,
                                    st.Local[1].TableName), <<"Values">>)
        ELSE Done([status |-> "ok", metric_key |-> key,
                   timeframe |-> Timeframe(tr.from, tr.to, g.value),
                   data |-> reply.series], <<"Values">>)

\* fetchSeriesPayloadLocal
fetchSeriesPayloadLocal(st, args, reply) ==
    IF st.Local = <<>> \/ st.Local[1].Config = <<>> THEN Fail(NotConfiguredLocal, <<>>)
    ELSE
    LET tr == resolveTimeRange(getStringArg(args, "from"), getStringArg(args, "to"))
        g == resolveGranularityLocal(getStringArg(args, "granularity"),
                                     st.Local[1].Config[1])
        key == TrimSpace(getStringArg(args, "key"))
        usedKey == IF key = "" THEN systemMetricsKey ELSE key
    IN  IF tr.err # "" THEN Fail(tr.err, <<>>)
        ELSE IF g.err # "" THEN Fail(g.err, <<>>)
        ELSE IF reply.op # ""
        THEN Fail(maybeSuggestSetup(reply.op, st.Local[1].DriverName,
                                    st.Local[1].TableName), <<"Values">>)
        ELSE Done([status |-> "ok", metric_key |-> usedKey,
                   timeframe |-> Timeframe(tr.from, tr.to, g.value),
                   data |-> reply.series], <<"Values">>)

\* fetchSeriesPayload
fetchSeriesPayload(st, args, reply) ==
    IF st.Local # <<>> THEN fetchSeriesPayloadLocal(st, args, reply)
    ELSE IF ~st.API THEN Fail(NotConfiguredAPI, <<>>)
    ELSE
    LET tr == resolveTimeRange(getStringArg(args, "from"), getStringArg(args, "to"))
        g == resolveGranularityValue(getStringArg(args, "granularity"), reply)
        key == TrimSpace(getStringArg(args, "key"))
        usedKey == IF key = "" THEN systemMetricsKey ELSE key
    IN  IF tr.err # "" THEN Fail(tr.err, <<>>)
        ELSE IF g.err # "" THEN Fail(g.err, g.calls)
        ELSE IF reply.op # "" THEN Fail(reply.op, g.calls \o <<"GetMetrics">>)
        ELSE Done([status |-> "ok", metric_key |-> usedKey,
                   timeframe |-> Timeframe(tr.from, tr.to, g.value),
                   data |-> reply.series], g.calls \o <<"GetMetrics">>)

\* ensureNoWildcards: the value paths of the model that contain "*".
HasWildcard(value) == value \in {"p*", "*"}

\* Mutant: every path counts as contained.
containsString_Always(values, target) == TRUE

\* containsString
containsString(values, target) == \E i \in 1..Len(values) : values[i] = target

\* Mutant: the values are returned as they came.
uniqueStrings_KeepsOrder(values) == values

\* uniqueStrings: the distinct values, sorted.
uniqueStrings(values) ==
    SelectSeq(SortedStrings, LAMBDA k : containsString(values, k))

\* Mutant: the paths are not restricted to the available ones.
filterAvailable_KeepsAll(paths, available) == uniqueStrings(paths)

\* filterAvailable: the paths that are available, distinct and sorted.
filterAvailable(paths, available) ==
    IF Len(paths) = 0 \/ Len(available) = 0 THEN <<>>
    ELSE uniqueStrings(SelectSeq(paths, LAMBDA k : containsString(available, k)))

\* Mutant: the nulls stay in the values.
normalizeNumericSlice_KeepsNulls(values) == values

\* normalizeNumericSlice: the values without the nulls.
normalizeNumericSlice(values) == SelectSeq(values, LAMBDA x : x.t # "null")

Aggregators == {"sum", "mean", "min", "max"}

\* The error of an aggregate without data.
NoDataFor(valuePath) ==
    "no data available for path " \o valuePath \o " in the selected timeframe"

\* queryPayloadLocal
queryPayloadLocal(st, mode, args, reply) ==
    IF st.Local = <<>> \/ st.Local[1].Config = <<>> THEN Fail(NotConfiguredLocal, <<>>)
    ELSE
    LET key == TrimSpace(getStringArg(args, "key"))
        valuePath == TrimSpace(getStringArg(args, "value_path"))
        tr == resolveTimeRange(getStringArg(args, "from"), getStringArg(args, "to"))
        g == resolveGranularityLocal(getStringArg(args, "granularity"),
                                     st.Local[1].Config[1])
        available == reply.series.available
        slices == IF getIntArg(args, "slices", 1) < 1 THEN 1
                  ELSE getIntArg(args, "slices", 1)
        aggName == ToLower(TrimSpace(getStringArg(args, "aggregator")))
        values == normalizeNumericSlice(reply.series.aggregate)
        matched == filterAvailable(reply.series.formatted, available)
        timeframe == buildTimeframePayload(tr.from, tr.to, g.value)
    IN  IF key = "" THEN Fail("key is required", <<>>)
        ELSE IF valuePath = "" THEN Fail("value_path is required", <<>>)
        ELSE IF HasWildcard(valuePath)
        THEN Fail("wildcards are not supported in value_path \"" \o valuePath \o "\"",
                  <<>>)
        ELSE IF tr.err # "" THEN Fail(tr.err, <<>>)
        ELSE IF g.err # "" THEN Fail(g.err, <<>>)
        ELSE IF reply.op # ""
        THEN Fail(maybeSuggestSetup(reply.op, st.Local[1].DriverName,
                                    st.Local[1].TableName), <<"Values">>)
        ELSE IF mode = "aggregate"
        THEN IF Len(available) = 0 THEN Fail(NoDataFor(valuePath), <<"Values">>)
             ELSE IF ~containsString(available, valuePath)
             THEN Fail("unknown path: " \o valuePath, <<"Values">>)
             ELSE IF aggName = "" THEN Fail("aggregator is required", <<"Values">>)
             ELSE IF aggName \notin Aggregators
             THEN Fail("unsupported aggregator \"" \o aggName \o "\"", <<"Values">>)
             ELSE IF Len(values) = 0
             THEN Fail(NoDataFor(valuePath), <<"Values">>)
             ELSE Done([status |-> "ok", aggregator |-> aggName, metric_key |-> key,
                        value_path |-> valuePath, slices |-> slices,
                        values |-> values, count |-> Len(values),
                        timeframe |-> timeframe, available_paths |-> available,
                        matched_paths |-> <<valuePath>>,
                        value |-> IF slices = 1 THEN <<values[1]>> ELSE <<>>],
                       <<"Values">>)
        ELSE IF mode \in {"timeline", "category"}
        THEN IF Len(matched) = 0
             THEN Fail("no matching data found for path " \o valuePath
                           \o " in the selected timeframe", <<"Values">>)
             ELSE Done([status |-> "ok", formatter |-> mode, metric_key |-> key,
                        value_path |-> valuePath, slices |-> slices,
                        timeframe |-> timeframe, result |-> reply.series.formatted,
                        available_paths |-> available, matched_paths |-> matched],
                       <<"Values">>)
        ELSE Fail("unsupported mode \"" \o mode \o "\"", <<"Values">>)

\* queryMetrics: the data object of the remote query response; request records
\* the body that was posted with the call.
queryMetrics(payload, reply) ==
    IF reply.op # "" THEN Fail(reply.op, <<"QueryMetrics">>)
    ELSE IF reply.shape = "missing" THEN Fail("missing data in response", <<"QueryMetrics">>)
    ELSE IF reply.shape # "object" THEN Fail("unexpected data shape", <<"QueryMetrics">>)
    ELSE Done([request |-> payload, data |-> reply.series], <<"QueryMetrics">>)

\* queryPayload
queryPayload(st, mode, args, reply) ==
    IF st.Local # <<>> THEN queryPayloadLocal(st, mode, args, reply)
    ELSE IF ~st.API THEN Fail(NotConfiguredAPI, <<>>)
    ELSE
    LET key == TrimSpace(getStringArg(args, "key"))
        valuePath == TrimSpace(getStringArg(args, "value_path"))
        tr == resolveTimeRange(getStringArg(args, "from"), getStringArg(args, "to"))
        g == resolveGranularityValue(getStringArg(args, "granularity"), reply)
        aggregator == TrimSpace(getStringArg(args, "aggregator"))
        payload == [mode |-> mode, key |-> key, value_path |-> valuePath,
                    from |-> tr.from, to |-> tr.to, granularity |-> g.value,
                    aggregator |-> IF mode = "aggregate" THEN <<aggregator>> ELSE <<>>,
                    slices |-> IF args["slices"].t # "absent" THEN <<args["slices"]>>
                               ELSE <<>>]
        q == queryMetrics(payload, reply)
    IN  IF key = "" THEN Fail("key is required", <<>>)
        ELSE IF valuePath = "" THEN Fail("value_path is required", <<>>)
        ELSE IF tr.err # "" THEN Fail(tr.err, <<>>)
        ELSE IF g.err # "" THEN Fail(g.err, g.calls)
        ELSE IF mode = "aggregate" /\ aggregator = ""
        THEN Fail("aggregator is required", g.calls)
        ELSE [payload |-> q.payload, err |-> q.err, calls |-> g.calls \o q.calls]

\* ensureValuesMap: only a JSON object is accepted.
ensureValuesMap(values) ==
    IF values.t = "object" THEN "" ELSE "values must be a JSON object"

\* atTime of writeMetricPayloadLocal as the response prints it: time.Parse
\* (RFC3339Nano) of the timestamps of the model, then Time.MarshalJSON, which
\* writes a zero offset as Z.
atTime(at) ==
    IF at = "2024-01-02T15:04:05+00:00" THEN "2024-01-02T15:04:05Z" ELSE at

\* writeMetricPayloadLocal: data.at is the parsed time, not the text given.
writeMetricPayloadLocal(st, args, reply) ==
    IF st.Local = <<>> \/ st.Local[1].Config = <<>> THEN Fail(NotConfiguredLocal, <<>>)
    ELSE
    LET key == TrimSpace(getStringArg(args, "key"))
        values == args["values"]
        at0 == TrimSpace(getStringArg(args, "at"))
        at == IF at0 = "" THEN NowRFC3339 ELSE at0
    IN  IF key = "" THEN Fail("key is required", <<>>)
        ELSE IF values.t = "absent" THEN Fail("values is required", <<>>)
        ELSE IF at0 # "" /\ validateTimestamp("at", at0) # ""
        THEN Fail(validateTimestamp("at", at0), <<>>)
        ELSE IF ensureValuesMap(values) # "" THEN Fail(ensureValuesMap(values), <<>>)
        ELSE IF reply.op # ""
        THEN Fail(maybeSuggestSetup(reply.op, st.Local[1].DriverName,
                                    st.Local[1].TableName), <<"Track">>)
        ELSE Done([data |-> [key |-> key, at |-> atTime(at), values |-> values]],
                  <<"Track">>)

\* writeMetricPayload
writeMetricPayload(st, args, reply) ==
    IF st.Local # <<>> THEN writeMetricPayloadLocal(st, args, reply)
    ELSE IF ~st.API THEN Fail(NotConfiguredAPI, <<>>)
    ELSE
    LET key == TrimSpace(getStringArg(args, "key"))
        values == args["values"]
        at0 == TrimSpace(getStringArg(args, "at"))
        at == IF at0 = "" THEN NowRFC3339 ELSE at0
    IN  IF key = "" THEN Fail("key is required", <<>>)
        ELSE IF values.t = "absent" THEN Fail("values is required", <<>>)
        ELSE IF at0 # "" /\ validateTimestamp("at", at0) # ""
        THEN Fail(validateTimestamp("at", at0), <<>>)
        ELSE IF reply.op # "" THEN Fail(reply.op, <<"PostMetrics">>)
        ELSE Done([data |-> [key |-> key, at |-> at, values |-> values]],
                  <<"PostMetrics">>)

\* listTranspondersPayload
listTranspondersPayload(st, reply) ==
    IF st.Local # <<>> THEN Fail(OnlyForAPI, <<>>)
    ELSE IF ~st.API THEN Fail(NotConfiguredAPI, <<>>)
    ELSE IF reply.op # "" THEN Fail(reply.op, <<"GetTransponders">>)
    ELSE Done([data |-> [transponders |-> <<>>]], <<"GetTransponders">>)

\* Mutant: the id is validated before the driver is looked at.
deleteTransponderPayload_ChecksIdFirst(st, args, reply) ==
    IF TrimSpace(getStringArg(args, "id")) = "" THEN Fail("id is required", <<>>)
    ELSE IF st.Local # <<>> THEN Fail(OnlyForAPI, <<>>)
    ELSE IF ~st.API THEN Fail(NotConfiguredAPI, <<>>)
    ELSE IF reply.op # "" THEN Fail(reply.op, <<"DeleteTransponder">>)
    ELSE Done([data |-> [id |-> TrimSpace(getStringArg(args, "id"))]],
              <<"DeleteTransponder">>)

\* deleteTransponderPayload
deleteTransponderPayload(st, args, reply) ==
    IF st.Local # <<>> THEN Fail(OnlyForAPI, <<>>)
    ELSE IF ~st.API THEN Fail(NotConfiguredAPI, <<>>)
    ELSE IF TrimSpace(getStringArg(args, "id")) = "" THEN Fail("id is required", <<>>)
    ELSE IF reply.op # "" THEN Fail(reply.op, <<"DeleteTransponder">>)
    ELSE Done([data |-> [id |-> TrimSpace(getStringArg(args, "id"))]],
              <<"DeleteTransponder">>)

(***************************************************************************)
(* Results, catalogs, tool and resource handlers                            *)
(***************************************************************************)

\* A result member: its Go value.  kind names the value (the initialize map,
\* the empty map, a catalog, a toolResult, a resourceReadResult).
Result(kind, protocolVersion, names, content, isError) ==
    [kind |-> kind, protocolVersion |-> protocolVersion, names |-> names,
     content |-> content, isError |-> isError]

\* A text is an error message or the JSON encoding of a payload.
Message(err) == [message |-> err]
Encoded(payload) == [json |-> payload]

\* toolResultFromJSON: one text item holding the encoded payload.
toolResultFromJSON(payload) ==
    Result("toolResult", "", <<>>, <<[type |-> "text", text |-> Encoded(payload)]>>, FALSE)

\* toolErrorResult: one text item holding the error message, isError set.
toolErrorResult(err) ==
    Result("toolResult", "", <<>>, <<[type |-> "text", text |-> Message(err)]>>, TRUE)

\* resourceResult: one contents entry holding the uri and the encoded payload.
resourceResult(uri, payload) ==
    Result("resourceReadResult", "", <<>>,
           <<[uri |-> uri, mimeType |-> "application/json", text |-> Encoded(payload)]>>,
           FALSE)

\* Mutant: the transponder entries are listed for the literal "api" only.
ListsTransponders_OnlyLiteralApi(driverName) == driverName = "api"

\* Whether a catalog lists the transponder entries for a driver name.
ListsTransponders(driverName) ==
    EqualFold(driverName, "api") \/ TrimSpace(driverName) = ""

\* resourceList: the URIs of the resource catalog, in order.
resourceList(driverName) ==
    <<"trifle://source", "trifle://metrics", "trifle://metrics/{key}">>
    \o (IF ListsTransponders(driverName) THEN <<"trifle://transponders">> ELSE <<>>)

\* Mutant: the transponder tools are listed for every driver.
toolDefinitions_AlwaysTransponders(driverName) ==
    <<"list_metrics", "fetch_series", "aggregate_series", "format_timeline",
      "format_category", "write_metric", "list_transponders", "delete_transponder">>

\* toolDefinitions: the names of the tool catalog, in order.
toolDefinitions(driverName) ==
    <<"list_metrics", "fetch_series", "aggregate_series", "format_timeline",
      "format_category", "write_metric">>
    \o (IF ListsTransponders(driverName)
        THEN <<"list_transponders", "delete_transponder">> ELSE <<>>)

\* executeTool: the orchestrator call a tool name selects.
executeTool(st, name, args, reply) ==
    CASE name = "list_metrics" -> listMetricsPayload(st, args, reply)
      [] name = "fetch_series" -> fetchSeriesPayload(st, args, reply)
      [] name = "aggregate_series" -> queryPayload(st, "aggregate", args, reply)
      [] name = "format_timeline" -> queryPayload(st, "timeline", args, reply)
      [] name = "format_category" -> queryPayload(st, "category", args, reply)
      [] name = "write_metric" -> writeMetricPayload(st, args, reply)
      [] name = "list_transponders" -> listTranspondersPayload(st, reply)
      [] name = "delete_transponder" -> deleteTransponderPayload(st, args, reply)
      [] OTHER -> Fail("unknown tool: " \o name, <<>>)

\* url.Parse on the URIs of the model: error, scheme, host, path and query.
ParsedURL(err, scheme, host, path, from, to, granularity) ==
    [err |-> err, Scheme |-> scheme, Host |-> host, Path |-> path,
     from |-> from, to |-> to, granularity |-> granularity]

urlParse(uri) ==
    CASE uri = "trifle://source" -> ParsedURL("", "trifle", "source", "", "", "", "")
      [] uri = "trifle://transponders" ->
            ParsedURL("", "trifle", "transponders", "", "", "", "")
      [] uri = "trifle://metrics" -> ParsedURL("", "trifle", "metrics", "", "", "", "")
      [] uri = "trifle://metrics/k" -> ParsedURL("", "trifle", "metrics", "/k", "", "", "")
      [] uri = "trifle://metrics/" -> ParsedURL("", "trifle", "metrics", "/", "", "", "")
      [] uri = "trifle://metrics/k?from=2024-01-01T00:00:00Z&to=2024-01-02T00:00:00Z&granularity=1d" ->
            ParsedURL("", "trifle", "metrics", "/k", "2024-01-01T00:00:00Z",
                      "2024-01-02T00:00:00Z", "1d")
      [] uri = "trifle://metrics?from=2024-01-01T00:00:00Z&to=2024-01-02T00:00:00Z" ->
            ParsedURL("", "trifle", "metrics", "", "2024-01-01T00:00:00Z",
                      "2024-01-02T00:00:00Z", "")
      [] uri = "https://metrics/k" -> ParsedURL("", "https", "metrics", "/k", "", "", "")
      [] uri = "trifle://dashboards/k" -> ParsedURL("", "trifle", "dashboards", "/k", "", "", "")
      [] uri = "trifle://metrics?granularity=hourly" ->
            ParsedURL("", "trifle", "metrics", "", "", "", "hourly")
      [] uri = "trifle://metrics/k?from=2024-01-01T00:00:00Z" ->
            ParsedURL("", "trifle", "metrics", "/k", "2024-01-01T00:00:00Z", "", "")
      [] uri = "http://source" -> ParsedURL("", "http", "source", "", "", "", "")
      [] uri = "trifle://keys" -> ParsedURL("", "trifle", "keys", "", "", "", "")
      [] uri = "%zz" ->
            ParsedURL("parse \"%zz\": invalid URL escape \"%zz\"", "", "", "", "", "", "")

\* Mutant: the leading slash of the path stays in the key.
TrimSlash_KeepsSlash(path) == path

\* strings.TrimPrefix(path, "/") on the paths of the model.
TrimSlash(path) == IF path = "/k" THEN "k" ELSE IF path = "/" THEN "" ELSE path

\* sourcePayloadFromConfig: the source description of a local driver.
sourcePayloadFromConfig(cfg) ==
    IF cfg = <<>>
    THEN [data |-> [default_granularity |-> "", available_granularities |-> <<>>]]
    ELSE [data |-> [default_granularity |-> resolveGranularityLocal("", cfg[1]).value,
                    available_granularities |-> cfg[1].Granularities]]

\* readResource: the orchestrator call the host of a trifle:// URI selects.
readResource(st, uri, reply) ==
    LET parsed == urlParse(uri)
        key == TrimSlash(parsed.Path)
        args == WithArgs([from |-> Str(parsed.from), to |-> Str(parsed.to),
                          granularity |-> Str(parsed.granularity)])
        call == IF key # ""
                THEN fetchSeriesPayload(st, [args EXCEPT !["key"] = Str(key)], reply)
                ELSE listMetricsPayload(st, args, reply)
        wrap(r) == IF r.err # "" THEN [result |-> <<>>, err |-> r.err, calls |-> r.calls]
                   ELSE [result |-> <<resourceResult(uri, r.payload[1])>>, err |-> "",
                         calls |-> r.calls]
    IN  IF parsed.err # "" THEN wrap(Fail(parsed.err, <<>>))
        ELSE IF parsed.Scheme # "trifle"
        THEN wrap(Fail("unsupported scheme: " \o parsed.Scheme, <<>>))
        ELSE IF parsed.Host = "source"
        THEN IF st.Local # <<>>
             THEN wrap(Done(sourcePayloadFromConfig(st.Local[1].Config), <<>>))
             ELSE IF ~st.API THEN wrap(Fail(NotConfiguredAPI, <<>>))
             ELSE IF reply.source # "" THEN wrap(Fail(reply.source, <<"GetSource">>))
             ELSE wrap(Done([data |-> [default_granularity |-> reply.DefaultGranularity,
                                       available_granularities |->
                                           reply.AvailableGranularities]],
                            <<"GetSource">>))
        ELSE IF parsed.Host = "transponders"
        THEN IF st.Local # <<>> THEN wrap(Fail(OnlyForAPI, <<>>))
             ELSE IF ~st.API THEN wrap(Fail(NotConfiguredAPI, <<>>))
             ELSE IF reply.op # "" THEN wrap(Fail(reply.op, <<"GetTransponders">>))
             ELSE wrap(Done([data |-> [transponders |-> <<>>]], <<"GetTransponders">>))
        ELSE IF parsed.Host = "metrics" THEN wrap(call)
        ELSE wrap(Fail("unknown resource: " \o parsed.Host, <<>>))

(***************************************************************************)
(* JSON-RPC layer                                                           *)
(***************************************************************************)

mcpProtocolVersion == "2024-11-05"

\* Mutant: the id of the request is not echoed.
rpcResult_NoId(id, result) ==
    [jsonrpc |-> "2.0", id |-> "", result |-> <<result>>, error |-> <<>>]

\* rpcResult: a response with a result member and no error member.
rpcResult(id, result) ==
    [jsonrpc |-> "2.0", id |-> id, result |-> <<result>>, error |-> <<>>]

\* An error value: rpc tells whether its dynamic type is *rpcError.
invalidParamsError(message) == [rpc |-> TRUE, code |-> -32602, message |-> message]
methodNotFoundError(message) == [rpc |-> TRUE, code |-> -32601, message |-> message]
PlainError(message) == [rpc |-> FALSE, code |-> 0, message |-> message]

\* What a handler returns: the response (<<>> when nil), the error (<<>> when
\* nil) and the backend calls it issued.
Returns(resp, err, issued) == [response |-> resp, err |-> err, calls |-> issued]

\* Mutant: an execution failure is returned as the error of the handler.
handleToolCall_ReturnsFailure(st, r, reply) ==
    LET params == r.params
        result == executeTool(st, params.name, params.arguments, reply)
    IN  IF params.kind = "absent"
        THEN Returns(<<>>, <<invalidParamsError("missing params")>>, <<>>)
        ELSE IF params.kind = "undecodable"
        THEN Returns(<<>>, <<invalidParamsError("invalid tool call params")>>, <<>>)
        ELSE IF params.name = ""
        THEN Returns(<<>>, <<invalidParamsError("tool name required")>>, <<>>)
        ELSE IF result.err # ""
        THEN Returns(<<>>, <<PlainError(result.err)>>, result.calls)
        ELSE Returns(<<rpcResult(r.id, toolResultFromJSON(result.payload[1]))>>, <<>>,
                     result.calls)

\* handleToolCall
handleToolCall(st, r, reply) ==
    LET params == r.params
        result == executeTool(st, params.name, params.arguments, reply)
    IN  IF params.kind = "absent"
        THEN Returns(<<>>, <<invalidParamsError("missing params")>>, <<>>)
        ELSE IF params.kind = "undecodable"
        THEN Returns(<<>>, <<invalidParamsError("invalid tool call params")>>, <<>>)
        ELSE IF params.name = ""
        THEN Returns(<<>>, <<invalidParamsError("tool name required")>>, <<>>)
        ELSE IF result.err # ""
        THEN Returns(<<rpcResult(r.id, toolErrorResult(result.err))>>, <<>>, result.calls)
        ELSE Returns(<<rpcResult(r.id, toolResultFromJSON(result.payload[1]))>>, <<>>,
                     result.calls)

\* handleResourceRead
handleResourceRead(st, r, reply) ==
    LET params == r.params
        payload == readResource(st, params.uri, reply)
    IN  IF params.kind = "absent"
        THEN Returns(<<>>, <<invalidParamsError("missing params")>>, <<>>)
        ELSE IF params.kind = "undecodable"
        THEN Returns(<<>>, <<invalidParamsError("invalid resource params")>>, <<>>)
        ELSE IF params.uri = ""
        THEN Returns(<<>>, <<invalidParamsError("uri required")>>, <<>>)
        ELSE IF payload.err # ""
        THEN Returns(<<rpcResult(r.id, toolErrorResult(payload.err))>>, <<>>,
                     payload.calls)
        ELSE Returns(<<rpcResult(r.id, payload.result[1])>>, <<>>, payload.calls)

\* handleMCPRequest: the switch on req.Method.
handleMCPRequest(st, r, reply) ==
    CASE r.method = "initialize" ->
            IF r.params.kind = "undecodable"
            THEN Returns(<<>>, <<invalidParamsError("invalid initialize params")>>, <<>>)
            ELSE Returns(<<rpcResult(r.id,
                            Result("initialize",
                                   IF r.params.protocolVersion = ""
                                   THEN mcpProtocolVersion
                                   ELSE r.params.protocolVersion,
                                   <<>>, <<>>, FALSE))>>, <<>>, <<>>)
      [] r.method = "initialized" -> Returns(<<>>, <<>>, <<>>)
      [] r.method = "shutdown" ->
            Returns(<<rpcResult(r.id, Result("empty", "", <<>>, <<>>, FALSE))>>, <<>>, <<>>)
      [] r.method = "exit" ->
            Returns(<<rpcResult(r.id, Result("empty", "", <<>>, <<>>, FALSE))>>, <<>>, <<>>)
      [] r.method = "tools/list" ->
            Returns(<<rpcResult(r.id, Result("tools", "", toolDefinitions(st.Driver),
                                             <<>>, FALSE))>>, <<>>, <<>>)
      [] r.method = "tools/call" -> handleToolCall(st, r, reply)
      [] r.method = "resources/list" ->
            Returns(<<rpcResult(r.id, Result("resources", "", resourceList(st.Driver),
                                             <<>>, FALSE))>>, <<>>, <<>>)
      [] r.method = "resources/read" -> handleResourceRead(st, r, reply)
      [] OTHER ->
            Returns(<<>>, <<methodNotFoundError("method not found: " \o r.method)>>, <<>>)

\* Mutant: the type assertion never succeeds, every error is reported as -32603.
ResponseFor_AlwaysInternal(r, h) ==
    IF h.err = <<>> THEN h.response
    ELSE IF Len(r.id) = 0 THEN <<>>
    ELSE <<[jsonrpc |-> "2.0", id |-> r.id, result |-> <<>>,
            error |-> <<[rpc |-> TRUE, code |-> -32603, message |-> h.err[1].message]>>]>>

\* Mutant: every error of the handler is dropped, whether the request has an id
\* or not.
ResponseFor_DropsErrors(r, h) ==
    IF h.err = <<>> THEN h.response ELSE <<>>

\* Mutant: the error of a request without id is reported like any other.
ResponseFor_AnswersNotifications(r, h) ==
    IF h.err = <<>> THEN h.response
    ELSE <<[jsonrpc |-> "2.0", id |-> r.id, result |-> <<>>, error |-> <<h.err[1]>>]>>

\* The response serveMCP forms from what the handler returned (lines 173-189):
\* the error of a request without id is dropped, any other error becomes an
\* error response, with code -32603 unless it is an *rpcError.
ResponseFor(r, h) ==
    IF h.err = <<>> THEN h.response
    ELSE IF Len(r.id) = 0 THEN <<>>
    ELSE <<[jsonrpc |-> "2.0", id |-> r.id, result |-> <<>>,
            error |-> <<IF h.err[1].rpc THEN h.err[1]
                        ELSE [rpc |-> TRUE, code |-> -32603,
                              message |-> h.err[1].message]>>]>>

\* The line the encoder writes for a response: its id and which members it has
\* (the kind of the result, the code of the error), for the request numbered n.
Line(n, resp) ==
    [n |-> n, id |-> resp.id,
     result |-> IF resp.result = <<>> THEN "" ELSE resp.result[1].kind,
     isError |-> resp.result # <<>> /\ resp.result[1].isError,
     error |-> IF resp.error = <<>> THEN 0 ELSE resp.error[1].code]

(***************************************************************************)
(* serveMCP                                                                 *)
(***************************************************************************)

\* The zero rpcRequest.
NoRequest == Request("", NoId, "", NoParams)

Init ==
    /\ state \in Sessions
    /\ pc = "decode"
    /\ nread = 0
    /\ req = NoRequest
    /\ handled = FALSE
    /\ calls = <<>>
    /\ response = <<>>
    /\ out = <<>>
    /\ ret = ""

\* decoder.Decode delivers the next envelope (line 162).
Decode ==
    /\ pc = "decode"
    /\ nread < MaxRequests
    /\ \E r \in Requests : req' = r
    /\ nread' = nread + 1
    /\ pc' = "dispatch"
    /\ handled' = FALSE
    /\ calls' = <<>>
    /\ response' = <<>>
    /\ UNCHANGED <<state, out, ret>>

\* decoder.Decode meets the end of the input: serveMCP returns nil (163-165).
DecodeEOF ==
    /\ pc = "decode"
    /\ pc' = "eof"
    /\ ret' = "nil"
    /\ UNCHANGED <<state, nread, req, handled, calls, response, out>>

\* decoder.Decode fails on input that is no JSON envelope: serveMCP returns the
\* error (line 166).
DecodeError ==
    /\ pc = "decode"
    /\ pc' = "undecodable"
    /\ ret' = "error"
    /\ UNCHANGED <<state, nread, req, handled, calls, response, out>>

\* Mutant: the marker is not looked at.
IsUnmarked_Never(r) == FALSE

\* A request without a jsonrpc marker is skipped (lines 169-171).
IsUnmarked(r) == r.jsonrpc = ""

Skip ==
    /\ pc = "dispatch"
    /\ IsUnmarked(req)
    /\ pc' = "decode"
    /\ UNCHANGED <<state, nread, req, handled, calls, response, out, ret>>

\* Mutant: a request whose backend call failed drops the api client of the session.
Handle_DropsClient ==
    /\ pc = "dispatch"
    /\ ~IsUnmarked(req)
    /\ \E reply \in Replies :
          \E h \in {handleMCPRequest(state, req, reply)} :
              /\ calls' = h.calls
              /\ response' = ResponseFor(req, h)
              /\ pc' = IF ResponseFor(req, h) = <<>> THEN "decode" ELSE "encode"
              /\ state' = IF h.calls # <<>> /\ (reply.op # "" \/ reply.source # "")
                           THEN [state EXCEPT !.API = FALSE] ELSE state
    /\ handled' = TRUE
    /\ UNCHANGED <<nread, req, out, ret>>

\* Mutant: an error of the handler for a request without id ends the loop.
Handle_ReturnsOnError ==
    /\ pc = "dispatch"
    /\ ~IsUnmarked(req)
    /\ \E reply \in Replies :
          \E h \in {handleMCPRequest(state, req, reply)} :
              /\ calls' = h.calls
              /\ response' = ResponseFor(req, h)
              /\ IF h.err # <<>> /\ Len(req.id) = 0
                 THEN pc' = "undecodable" /\ ret' = "error"
                 ELSE /\ pc' = IF ResponseFor(req, h) = <<>> THEN "decode" ELSE "encode"
                      /\ ret' = ret
    /\ handled' = TRUE
    /\ UNCHANGED <<state, nread, req, out>>

\* handleMCPRequest runs, with the backend answering reply, and the response is
\* formed; a nil response continues the loop (lines 173-193).
Handle ==
    /\ pc = "dispatch"
    /\ ~IsUnmarked(req)
    /\ \E reply \in Replies :
          \E h \in {handleMCPRequest(state, req, reply)} :
              /\ calls' = h.calls
              /\ response' = ResponseFor(req, h)
              /\ pc' = IF ResponseFor(req, h) = <<>> THEN "decode" ELSE "encode"
    /\ handled' = TRUE
    /\ UNCHANGED <<state, nread, req, out, ret>>

\* Mutant: the loop goes on after the response to exit.
Encode_NoExit ==
    /\ pc = "encode"
    /\ out' = Append(out, Line(nread, response[1]))
    /\ pc' = "decode"
    /\ ret' = ret
    /\ req' = NoRequest
    /\ handled' = FALSE
    /\ calls' = <<>>
    /\ response' = <<>>
    /\ UNCHANGED <<state, nread>>

\* encoder.Encode writes the response; after exit serveMCP returns (195-201).
\* The locals of the iteration end here.
Encode ==
    /\ pc = "encode"
    /\ out' = Append(out, Line(nread, response[1]))
    /\ IF req.method = "exit"
       THEN pc' = "exit" /\ ret' = "nil"
       ELSE pc' = "decode" /\ ret' = ret
    /\ req' = NoRequest
    /\ handled' = FALSE
    /\ calls' = <<>>
    /\ response' = <<>>
    /\ UNCHANGED <<state, nread>>

Next == Decode \/ DecodeEOF \/ DecodeError \/ Skip \/ Handle \/ Encode

Spec == Init /\ [][Next]_vars

\* The backend answers every call: a handler that was called returns, so the
\* loop does not stay at the dispatch of a marked request.  Handle is enabled
\* exactly there and always leaves it, so this is WF_vars(Handle).
HandlerReturns == []<>~(pc = "dispatch" /\ ~IsUnmarked(req))

\* The loop runs on: an unmarked request is skipped, a handler returns and a
\* pending response is written.
FairSpec == Spec /\ WF_vars(Skip) /\ WF_vars(Encode) /\ HandlerReturns

\* encoder.Encode fails, stdout being closed or full: serveMCP returns the error
\* and the response is not on stdout (lines 195-197).
EncodeFails ==
    /\ pc = "encode"
    /\ pc' = "unwritable"
    /\ ret' = "error"
    /\ UNCHANGED <<state, nread, req, handled, calls, response, out>>

\* The loop on a stdout that may fail.
ServeNext == Decode \/ DecodeEOF \/ DecodeError \/ Skip \/ Handle \/ Encode \/ EncodeFails

ServeSpec == Init /\ [][ServeNext]_vars

TypeOK ==
    /\ pc \in {"decode", "dispatch", "encode", "eof", "undecodable", "exit"}
    /\ nread \in 0..MaxRequests
    /\ ret \in {"", "nil", "error"}
    /\ Len(response) <= 1
    /\ Len(out) <= nread

(***************************************************************************)
(* Single calls of the orchestrator and of its helpers                      *)
(***************************************************************************)

\* The sequences over S of length at most n.
SeqsUpTo(S, n) == UNION {[1..k -> S] : k \in 0..n}

\* What the series library reports for a query: AvailablePaths, the Aggregate*
\* values and the keys of the Format* result, in any order and with repetitions.
LibraryLists == SeqsUpTo({"p", "q"}, MaxPaths)
LibraryValues == SeqsUpTo({Null, Num("5")}, MaxPaths)

SeriesOf(available, aggregate, formatted) ==
    [at |-> 1, values |-> <<>>, available |-> available, aggregate |-> aggregate,
     formatted |-> formatted]

\* A backend that answers: the source has the default granularity 1h.
Answering(series) == Reply("", "1h", <<"1h">>, "", "object", series)

\* The slices argument as a client may send it.
SlicesArgs == {Absent, Num("0"), Num("1"), Num("3"), Num("-2"), Str("abc")}

\* The inputs and the result of the call that was made.
Called(fn, inputs, result) ==
    /\ pc = "call"
    /\ pc' = fn
    /\ req' = inputs
    /\ response' = <<result>>
    /\ calls' = result.calls
    /\ UNCHANGED <<state, nread, handled, out, ret>>

\* list_transponders and delete_transponder through executeTool, and the
\* transponders resource through readResource.
CallTransponders ==
    /\ pc = "call"
    /\ \E reply \in Replies, id \in {Absent, Str(" "), Str("t1")} :
        \/ \E name \in {"list_transponders", "delete_transponder"} :
              Called("transponders",
                     [name |-> name, id |-> id],
                     executeTool(state, name, WithArgs([id |-> id]), reply))
        \/ Called("transponders",
                  [name |-> "trifle://transponders", id |-> id],
                  [payload |-> <<>>,
                   err |-> readResource(state, "trifle://transponders", reply).err,
                   calls |-> readResource(state, "trifle://transponders", reply).calls])

ResourceUris ==
    Uris \cup {"trifle://metrics/",
               "trifle://metrics/k?from=2024-01-01T00:00:00Z&to=2024-01-02T00:00:00Z&granularity=1d",
               "trifle://metrics?from=2024-01-01T00:00:00Z&to=2024-01-02T00:00:00Z",
               "https://metrics/k", "trifle://dashboards/k"}

CallReadResource ==
    /\ pc = "call"
    /\ \E uri \in ResourceUris, reply \in Replies :
        Called("readResource", [uri |-> uri, reply |-> reply],
               readResource(state, uri, reply))

\* aggregate_series on a series of which the library reports the available
\* paths and the aggregated values.
CallAggregate ==
    /\ pc = "call"
    /\ \E valuePath \in {"p", "q", "r"}, aggregator \in {Str("sum"), Str("SUM"), Str("median"), Absent},
       slices \in SlicesArgs, available \in LibraryLists, aggregate \in LibraryValues :
        LET args == [GoodArgs EXCEPT !["value_path"] = Str(valuePath),
                                      !["aggregator"] = aggregator,
                                      !["slices"] = slices]
            series == SeriesOf(available, aggregate, <<>>)
        IN  Called("aggregate", [args |-> args, series |-> series],
                   queryPayload(state, "aggregate", args, Answering(series)))

\* format_timeline and format_category on a series of which the library reports
\* the available paths and the keys of the reshaped result.
CallFormat ==
    /\ pc = "call"
    /\ \E mode \in {"timeline", "category"}, valuePath \in {"p", "q"}, slices \in SlicesArgs,
       available \in LibraryLists, formatted \in LibraryLists :
        LET args == [GoodArgs EXCEPT !["value_path"] = Str(valuePath),
                                      !["slices"] = slices]
            series == SeriesOf(available, <<>>, formatted)
        IN  Called("format", [mode |-> mode, args |-> args, series |-> series],
                   queryPayload(state, mode, args, Answering(series)))

CallWriteMetric ==
    /\ pc = "call"
    /\ \E key \in {Absent, Str(" "), Str("k")},
       values \in {Absent, Null, Str("x"), Num("1"), Obj("map[count:1]")},
       at \in {Absent, Str(" "), Str("yesterday"), Str("2024-01-02T15:04:05+00:00")},
       reply \in Replies :
        LET args == WithArgs([key |-> key, values |-> values, at |-> at])
        IN  Called("writeMetric", [args |-> args, reply |-> reply],
                   writeMetricPayload(state, args, reply))

TimeArgs ==
    {"", " ", "2024-01-01T00:00:00Z", "2024-01-02T00:00:00Z", " 2024-01-01T00:00:00Z ",
     "yesterday", "2024-01-02T15:04:05+00:00"}

CallResolveTimeRange ==
    /\ pc = "call"
    /\ \E from \in TimeArgs, to \in TimeArgs :
        Called("resolveTimeRange", [from |-> from, to |-> to],
               [from |-> resolveTimeRange(from, to).from, to |-> resolveTimeRange(from, to).to,
                err |-> resolveTimeRange(from, to).err, calls |-> <<>>])

GranularityArgs == {"", " ", "1h", "1d", "15m", "1mo", "2w", "1H", " 1h ", "hourly", "h1"}

CallValidateGranularity ==
    /\ pc = "call"
    /\ \E value \in GranularityArgs :
        Called("validateGranularity", [value |-> value],
               [value |-> validateGranularity(value).value,
                err |-> validateGranularity(value).err, calls |-> <<>>])

\* The granularities a source or a configuration may offer; "hourly" is one
\* that granularityPattern does not match.
GranularityLists == SeqsUpTo({"1h", "1d", "15m", "hourly"}, MaxGranularities)

\* resolveGranularityValue against a source that answers with a default and a
\* list, and resolveGranularityLocal against a configuration with that list.
CallResolveGranularity ==
    /\ pc = "call"
    /\ \E granularity \in {"", " ", "1H", "hourly"}, default \in {"", "2w", "hourly"},
       available \in GranularityLists, source \in {"", "context deadline exceeded"},
       resolver \in {"remote", "local"} :
        LET reply == Reply(source, default, available, "", "object", NoSeries)
            cfg == [Granularities |-> available]
            inputs == [resolver |-> resolver, granularity |-> granularity,
                       source |-> source, default |-> default, available |-> available]
        IN  IF resolver = "remote"
            THEN Called("resolveGranularity", inputs,
                        resolveGranularityValue(granularity, reply))
            ELSE Called("resolveGranularity", inputs,
                        [value |-> resolveGranularityLocal(granularity, cfg).value,
                         err |-> resolveGranularityLocal(granularity, cfg).err,
                         calls |-> <<>>])

\* The errors of a local store, with and without a signature of a missing object.
StoreErrors ==
    {"", "dial tcp timeout", "SQL logic error: no such table: metrics",
     "ERROR: relation \"metrics\" does not exist",
     "Error 1146 (42S02): Table 'db.metrics' doesn't exist", "NO SUCH TABLE: metrics",
     "correlation id rejected", "database is locked"}

\* The DriverName of a localDriverRuntime, which is what every caller hands to
\* maybeSuggestSetup: loadLocalConfig stores the normalized name and returns a
\* runtime for these five only.
SetupDrivers == {"sqlite", "postgres", "mysql", "redis", "mongo"}

CallMaybeSuggestSetup ==
    /\ pc = "call"
    /\ \E err \in StoreErrors, driverName \in SetupDrivers, targetName \in {"", " ", "metrics"} :
        Called("maybeSuggestSetup",
               [err |-> err, driverName |-> driverName, targetName |-> targetName],
               [err |-> maybeSuggestSetup(err, driverName, targetName), calls |-> <<>>])

\* The --driver values a command may be started with.
SelectableDrivers ==
    {"", " ", "api", "API", " api ", "sqlite", "SQLite", "postgres", "mysql", "redis",
     "mongo", "MongoDB", "oracle", "sqlite3"}

\* The starts of the model: the default one, and each way one of its settings
\* may differ.
Runs ==
    {DefaultRun,
     [DefaultRun EXCEPT !.config.SourceName = "nosuch"],
     [DefaultRun EXCEPT !.config.Sources = {}, !.config.SourceName = "nosuch"],
     [DefaultRun EXCEPT !.config.err = "--source requires a value"],
     [DefaultRun EXCEPT !.opts.BaseURL = ""],
     [DefaultRun EXCEPT !.opts.BaseURL = "%zz"],
     [DefaultRun EXCEPT !.opts.BaseURL = "https://app.trifle.io/"],
     [DefaultRun EXCEPT !.driverOpts.DBPath = " "],
     [DefaultRun EXCEPT !.driverOpts.Joined = "sideways"],
     [DefaultRun EXCEPT !.driverOpts.BeginningOfWeek = "someday"],
     [DefaultRun EXCEPT !.driverOpts.Granularities = " 1h, ,1d "],
     [DefaultRun EXCEPT !.driverOpts.Granularities = ""],
     [DefaultRun EXCEPT !.driverOpts.Table = "metrics", !.driverOpts.Prefix = " metrics: "],
     [DefaultRun EXCEPT !.driverOpts.Table = "", !.driverOpts.Collection = "events"],
     [DefaultRun EXCEPT !.driverOpts.BufferMode = "off"],
     [DefaultRun EXCEPT !.open = "dial tcp 127.0.0.1:6379: connect: connection refused"]}

\* runMCP started with a --driver value and a token, and the first list_metrics
\* call the session built by it serves, if it builds one.
CallRunMCP ==
    /\ pc = "call"
    /\ \E driver \in SelectableDrivers, token \in {"", "t"}, base \in Runs,
          reply \in Replies :
        LET run == [base EXCEPT !.driverOpts.Driver = driver, !.opts.Token = token]
        IN  \E start \in {runMCP(run)} :
              Called("runMCP",
                     [driver |-> driver, token |-> token, run |-> run,
                      session |-> start.state],
                     IF start.err # "" THEN Fail(start.err, <<>>)
                     ELSE executeTool(start.state[1], "list_metrics", RequiredArgs, reply))

\* --buffer-mode and --buffer-drivers as a user may give them.
BufferModes == {"", "auto", "on", "ON", "always", "off", " off ", "never", "maybe"}
BufferDriverLists ==
    {"", " , ", "sqlite,postgres", "sqlite,mysql", " SQLite , mysql", "MongoDB", "redis"}

\* A configuration before applyBufferOptions, with settings the options differ from.
ConfigBefore(enabled) ==
    [BufferDuration |-> 1, BufferSize |-> 256, BufferAggregate |-> TRUE,
     BufferAsync |-> FALSE, BufferEnabled |-> enabled]

\* applyBufferOptions for a local driver, as loadLocalConfig calls it.
CallApplyBufferOptions ==
    /\ pc = "call"
    /\ \E mode \in BufferModes, drivers \in BufferDriverLists,
       driverName \in {"sqlite", "postgres", "mysql", "redis", "mongo"},
       size \in {<<0, 0>>, <<2, 10>>}, aggregate \in BOOLEAN, async \in BOOLEAN,
       enabled \in BOOLEAN :
        LET opts == [BufferMode |-> mode, BufferDrivers |-> drivers,
                     BufferDuration |-> size[1], BufferSize |-> size[2],
                     BufferAggregate |-> aggregate, BufferAsync |-> async]
        IN  Called("applyBufferOptions",
                   [cfg |-> ConfigBefore(enabled), opts |-> opts, driverName |-> driverName],
                   [cfg |-> applyBufferOptions(ConfigBefore(enabled), opts, driverName),
                    calls |-> <<>>])

\* The status codes and bodies a server may answer with.
StatusCodes == {200, 201, 204, 299, 300, 304, 399, 400, 401, 404, 500, 503}
Bodies == {"", "{\"data\":{}}", "not json", " not found\n"}

\* doJSON called with or without a payload and an out value; the payload may
\* fail to marshal, the request to be built, the exchange to happen and the
\* body to be read.
CallDoJSON ==
    /\ pc = "call"
    /\ \E method \in {"GET", "POST"}, hasPayload \in BOOLEAN,
          marshal \in {"", "json: unsupported type: chan int"},
          build \in {"", "net/http: invalid method \"BAD METHOD\""},
          transport \in {"", "connection refused"}, status \in StatusCodes,
          read \in {"", "unexpected EOF"}, body \in Bodies, hasOut \in BOOLEAN :
        LET resp == HTTPResponse(transport, status, read, body)
            call == JSONCall(method, hasPayload, marshal, build, resp)
        IN  Called("doJSON", [call |-> call, resp |-> resp, hasOut |-> hasOut],
                   doJSON(call, hasOut))

\* The rows a backend may hold for a timestamp.
Rows ==
    {Row(NoCounters("absent")), Row(NoCounters("null")), Row(NoCounters("string")),
     Row(Counters(<<<<"signup", 2>>, <<"login", 1>>>>)), Row(Counters(<<<<"login", 3>>>>))}

\* A remote session, and a local one whose configuration offers the granularities.
RemoteSession == [Driver |-> "api", API |-> TRUE, Local |-> <<>>]
LocalSession(granularities) ==
    [Driver |-> "sqlite", API |-> FALSE,
     Local |-> <<LocalRuntime("sqlite", "trifle_stats", granularities)>>]

\* list_metrics and fetch_series with the same arguments on a remote and on a
\* local session whose backends return the same series.
CallListFetch ==
    /\ pc = "call"
    /\ \E name \in {"list_metrics", "fetch_series"}, key \in {Absent, Str(" "), Str(" k ")},
          granularity \in {Absent, Str("1H")},
          from \in {Absent, Str(" 2024-01-01T00:00:00Z ")},
          default \in {"", "2w", "hourly"}, available \in {<<>>, <<"1d", "1h">>},
          granularities \in {<<>>, <<"1d", "1h">>, <<"hourly">>},
          values \in SeqsUpTo(Rows, MaxPaths) :
        LET args == WithArgs([key |-> key, granularity |-> granularity, from |-> from,
                              to |-> IF from = Absent THEN Absent
                                     ELSE Str("2024-01-02T00:00:00Z")])
            series == [at |-> Len(values), values |-> values, available |-> <<>>,
                       aggregate |-> <<>>, formatted |-> <<>>]
            reply == Reply("", default, available, "", "object", series)
        IN  \E remote \in {executeTool(RemoteSession, name, args, reply)},
               local \in {executeTool(LocalSession(granularities), name, args, reply)} :
              Called("listFetch",
                     [name |-> name, args |-> args, default |-> default,
                      available |-> available, granularities |-> granularities,
                      values |-> values],
                     [remote |-> remote, local |-> local,
                      calls |-> remote.calls \o local.calls])

\* A query tool called with or without each of its required arguments and
\* with or without a granularity.
CallQuery ==
    /\ pc = "call"
    /\ \E mode \in {"aggregate", "timeline", "category"}, key \in {Absent, Str(" "), Str("k")},
          valuePath \in {Absent, Str("p")}, aggregator \in {Absent, Str(" "), Str("sum")},
          granularity \in {Absent, Str("1h")}, reply \in Replies :
        LET args == WithArgs([key |-> key, value_path |-> valuePath,
                              aggregator |-> aggregator, granularity |-> granularity])
        IN  Called("query", [mode |-> mode, args |-> args, reply |-> reply],
                   queryPayload(state, mode, args, reply))

\* The tool names and the resource URIs a client may ask for, listed or not.
CatalogTools == KnownTools \cup {"drop_metrics", "LIST_METRICS", "create_transponder"}
CatalogUris ==
    {"trifle://source", "trifle://metrics", "trifle://metrics/k", "trifle://transponders",
     "trifle://keys", "trifle://dashboards/k"}

\* tools/list and a tools/call of one name, and resources/list and a
\* resources/read of one URI, on the session.
CallCatalog ==
    /\ pc = "call"
    /\ \E reply \in Replies, args \in {NoArgs, GoodArgs} :
          \/ \E name \in CatalogTools :
                Called("catalog",
                       [kind |-> "tool", name |-> name,
                        listed |-> toolDefinitions(state.Driver)],
                       executeTool(state, name, args, reply))
          \/ \E uri \in CatalogUris :
                Called("catalog",
                       [kind |-> "resource", name |-> uri,
                        listed |-> resourceList(state.Driver)],
                       [payload |-> <<>>, err |-> readResource(state, uri, reply).err,
                        calls |-> readResource(state, uri, reply).calls])

CallInit ==
    /\ state \in Sessions
    /\ pc = "call"
    /\ nread = 0
    /\ req = NoRequest
    /\ handled = FALSE
    /\ calls = <<>>
    /\ response = <<>>
    /\ out = <<>>
    /\ ret = ""

CallNext ==
    \/ CallTransponders
    \/ CallReadResource
    \/ CallAggregate
    \/ CallFormat
    \/ CallWriteMetric
    \/ CallResolveTimeRange
    \/ CallValidateGranularity
    \/ CallResolveGranularity
    \/ CallMaybeSuggestSetup
    \/ CallRunMCP
    \/ CallApplyBufferOptions
    \/ CallDoJSON
    \/ CallListFetch
    \/ CallQuery
    \/ CallCatalog

\* One call of one function on inputs drawn from the sets above.
CallSpec == CallInit /\ [][CallNext]_vars

(***************************************************************************)
(* Properties of the request loop                                           *)
(***************************************************************************)

IsNotification(r) == r.jsonrpc # "" /\ Len(r.id) = 0

Last(q) == q[Len(q)]

\* C1: a request with a jsonrpc marker and no id, of any method, has its
\* handler executed and writes nothing: once it is dispatched no response is
\* pending for it, and no line of stdout lacks an id.
C1_NotificationsWriteNothing ==
    /\ (IsNotification(req) /\ pc # "dispatch") => (handled /\ response = <<>>)
    /\ \A i \in 1..Len(out) : out[i].id # NoId

\* The tool or resource call of a well-formed tools/call or resources/read.
IsWellFormedCall(r) ==
    /\ r.method \in {"tools/call", "resources/read"}
    /\ r.params.kind = "object"
    /\ r.method = "tools/call" => r.params.name # ""
    /\ r.method = "resources/read" => r.params.uri # ""

Execution(st, r, reply) ==
    IF r.method = "tools/call"
    THEN executeTool(st, r.params.name, r.params.arguments, reply).err
    ELSE readResource(st, r.params.uri, reply).err

\* A response with a result member that carries isError and one text item
\* holding the message, and with no error member.
ErrorFlagged(id, message) ==
    [jsonrpc |-> "2.0", id |-> id,
     result |-> <<[kind |-> "toolResult", protocolVersion |-> "", names |-> <<>>,
                   content |-> <<[type |-> "text", text |-> [message |-> message]]>>,
                   isError |-> TRUE]>>,
     error |-> <<>>]

\* C2: a well-formed tools/call or resources/read with an id whose execution
\* fails is answered by a result with isError = true and one text item holding
\* the error message, and no error member (and one that succeeds by a result
\* without isError).
C2_ExecutionFailuresAreResults ==
    [][(pc = "dispatch" /\ req.jsonrpc # "" /\ req.id # NoId /\ IsWellFormedCall(req))
       => \E reply \in Replies :
            IF Execution(state, req, reply) # ""
            THEN response' = <<ErrorFlagged(req.id, Execution(state, req, reply))>>
            ELSE /\ Len(response') = 1
                 /\ response'[1].error = <<>>
                 /\ Len(response'[1].result) = 1
                 /\ ~response'[1].result[1].isError]_vars

\* A resources/read with an id whose backend call failed awaits its answer.
C2_Witness ==
    /\ pc = "encode"
    /\ req.method = "resources/read"
    /\ req.id # NoId
    /\ calls # <<>>
    /\ response[1].result # <<>>
    /\ response[1].result[1].isError

\* The envelope of the request is malformed for its method.
IsMalformed(r) ==
    /\ r.method \in {"initialize", "tools/call", "resources/read"}
    /\ \/ r.params.kind \in {"absent", "undecodable"}
       \/ r.method = "tools/call" /\ r.params.name = ""
       \/ r.method = "resources/read" /\ r.params.uri = ""

\* C3: a response with an error member has code -32601 for a method that is
\* none of the eight known ones or code -32602 for a malformed initialize,
\* tools/call or resources/read; -32603 is never written and no response has
\* both a result and an error.
C3_ErrorCodes ==
    /\ pc = "encode" =>
          /\ ~(response[1].result # <<>> /\ response[1].error # <<>>)
          /\ response[1].error # <<>> =>
                \/ response[1].error[1].code = -32601 /\ req.method \notin KnownMethods
                \/ response[1].error[1].code = -32602 /\ IsMalformed(req)
    /\ \A i \in 1..Len(out) :
          /\ out[i].error \in {0, -32601, -32602}
          /\ ~(out[i].result # "" /\ out[i].error # 0)

\* A tools/call without a tool name is about to be answered with -32602.
C3_Witness ==
    /\ pc = "encode"
    /\ req.method = "tools/call"
    /\ req.params.kind = "object"
    /\ req.params.name = ""
    /\ response[1].error # <<>>
    /\ response[1].error[1].code = -32602

\* C4: each request gets at most one response, written before the next request
\* is read, responses are in the order of their requests and carry the id of
\* the request they answer.
C4_OneResponseInOrder ==
    /\ [](/\ \A i, j \in 1..Len(out) : i < j => out[i].n < out[j].n
          /\ \A i \in 1..Len(out) : out[i].n <= nread
          /\ pc = "dispatch" => \A i \in 1..Len(out) : out[i].n < nread
          /\ pc = "decode" => response = <<>>)
    /\ [][pc = "encode" =>
            /\ Len(out') = Len(out) + 1
            /\ SubSeq(out', 1, Len(out)) = out
            /\ Last(out').n = nread
            /\ Last(out').id = req.id]_vars

\* Two requests with different ids were answered, each under its own id.
C4_Witness ==
    /\ Len(out) = 2
    /\ out[1].n = 1 /\ out[1].id = "2"
    /\ out[2].n = 2 /\ out[2].id = "1"

\* The number of lines written for the request numbered n.
Answers(n) == Cardinality({i \in 1..Len(out) : out[i].n = n})

NeedsResponse(r) == r.jsonrpc # "" /\ Len(r.id) > 0 /\ r.method # "initialized"

\* C5: with a backend that returns, a marked request with an id whose method is
\* not initialized gets exactly one response before the next request is read;
\* an initialized request gets none, even with an id.
C5_EveryRequestAnswered ==
    /\ \A n \in 1..MaxRequests :
          (pc = "dispatch" /\ nread = n /\ NeedsResponse(req))
              ~> (nread = n /\ Answers(n) = 1)
    /\ [](\A n \in 1..MaxRequests : Answers(n) <= 1)
    /\ []((req.jsonrpc # "" /\ req.method = "initialized" /\ pc # "dispatch")
            => (handled /\ response = <<>> /\ Answers(nread) = 0))

\* The first request was answered under its id and the second, an initialized
\* request with an id, was handled without a response.
C5_Witness ==
    /\ nread = 2
    /\ pc = "decode"
    /\ handled
    /\ req.method = "initialized"
    /\ req.id = "2"
    /\ Len(out) = 1
    /\ out[1].n = 1 /\ out[1].id = "1"

EmptyResult(id) ==
    [jsonrpc |-> "2.0", id |-> id,
     result |-> <<[kind |-> "empty", protocolVersion |-> "", names |-> <<>>,
                   content |-> <<>>, isError |-> FALSE]>>,
     error |-> <<>>]

EmptyLine(n, id) == [n |-> n, id |-> id, result |-> "empty", isError |-> FALSE, error |-> 0]

\* C6: exit and shutdown with an id are answered with an empty result under
\* their id; after the answer to exit serveMCP has returned and takes no
\* further step, after the answer to shutdown it reads the next request.
C6_ExitTerminatesShutdownDoesNot ==
    [][/\ (pc = "dispatch" /\ req.jsonrpc # "" /\ req.id # NoId
            /\ req.method \in {"exit", "shutdown"})
          => (pc' = "encode" /\ response' = <<EmptyResult(req.id)>>)
       /\ (pc = "encode" /\ req.id # NoId /\ req.method = "exit")
          => (pc' = "exit" /\ ret' = "nil" /\ out' = Append(out, EmptyLine(nread, req.id)))
       /\ (pc = "encode" /\ req.id # NoId /\ req.method = "shutdown")
          => (pc' = "decode" /\ ret' = "" /\ out' = Append(out, EmptyLine(nread, req.id)))
       /\ pc = "exit" => UNCHANGED vars]_vars

\* shutdown was answered and the loop went on; exit was answered and ended it.
C6_Witness ==
    /\ pc = "exit"
    /\ ret = "nil"
    /\ out = <<EmptyLine(1, "1"), EmptyLine(2, "2")>>

\* C7: a request without a jsonrpc marker, of any method, is dropped: no
\* handler runs, no backend call is made, nothing is written and the loop reads
\* the next request.
C7_UnmarkedRequestsAreDropped ==
    [][(pc = "dispatch" /\ req.jsonrpc = "")
       => /\ pc' = "decode"
          /\ ret' = ""
          /\ ~handled'
          /\ calls' = <<>>
          /\ response' = <<>>
          /\ out' = out
          /\ state' = state]_vars

\* An unmarked exit request was dropped and the loop is ready for the next one.
C7_Witness ==
    /\ pc = "decode"
    /\ nread = 1
    /\ req.jsonrpc = ""
    /\ req.method = "exit"
    /\ ~handled
    /\ out = <<>>

\* C8: a marked request without id and with an unknown method writes nothing
\* and the loop reads the next request.
C8_UnknownNotificationIsSilent ==
    [][(pc = "dispatch" /\ IsNotification(req) /\ req.method \notin KnownMethods)
       => /\ pc' = "decode"
          /\ ret' = ""
          /\ response' = <<>>
          /\ out' = out]_vars

\* A notification of an unknown method was handled and nothing was written.
C8_Witness ==
    /\ pc = "decode"
    /\ handled
    /\ IsNotification(req)
    /\ req.method = "notifications/cancelled"
    /\ out = <<>>

\* The responses a session that has handled nothing gives to a request.
FreshResponses(st, r) ==
    {ResponseFor(r, handleMCPRequest(st, r, reply)) : reply \in Replies}

\* C9: no step changes the session state, and the response to a request is one
\* that a session started with the same driver gives to it as its first
\* request, whatever was handled before.
C9_SessionStateIsFixed ==
    /\ [][state' = state]_vars
    /\ [](state \in Sessions)
    /\ [][(pc = "dispatch" /\ req.jsonrpc # "")
           => \E s \in Sessions :
                 /\ state = s
                 /\ response' \in FreshResponses(s, req)]_vars

\* After a tool call that failed in the backend, a second one succeeded.
C9_Witness ==
    /\ nread = 2
    /\ pc = "encode"
    /\ Len(out) = 1
    /\ out[1].isError
    /\ req.method = "tools/call"
    /\ calls # <<>>
    /\ response[1].result # <<>>
    /\ ~response[1].result[1].isError

SixTools ==
    <<"list_metrics", "fetch_series", "aggregate_series", "format_timeline",
      "format_category", "write_metric">>

ThreeResources == <<"trifle://source", "trifle://metrics", "trifle://metrics/{key}">>

\* Driver names: api in any case, unset (empty or blank) and the local drivers.
ApiOrUnset == {"api", "API", "Api", "", " ", "  "}
CatalogDrivers == ApiOrUnset \cup {"sqlite", "postgres", "mysql", "redis", "mongo"}

ExpectedTools(d) ==
    SixTools \o (IF d \in ApiOrUnset THEN <<"list_transponders", "delete_transponder">>
                 ELSE <<>>)

ExpectedResources(d) ==
    ThreeResources \o (IF d \in ApiOrUnset THEN <<"trifle://transponders">> ELSE <<>>)

\* C10: tools/list returns the six tools, and the two transponder tools exactly
\* when the driver is api or unset; resources/list returns the three URIs, and
\* the transponders URI exactly when the driver is api or unset.
C10_CatalogsFollowDriver ==
    /\ \A d \in CatalogDrivers :
          /\ toolDefinitions(d) = ExpectedTools(d)
          /\ resourceList(d) = ExpectedResources(d)
    /\ (pc = "encode" /\ req.method = "tools/list")
          => response[1].result[1].names = ExpectedTools(state.Driver)
    /\ (pc = "encode" /\ req.method = "resources/list")
          => response[1].result[1].names = ExpectedResources(state.Driver)

\* A local session is about to answer tools/list with the six tools.
C10_Witness ==
    /\ pc = "encode"
    /\ req.method = "tools/list"
    /\ state.Driver = "sqlite"
    /\ response[1].result[1].names = SixTools

(***************************************************************************)
(* Properties of single calls                                               *)
(***************************************************************************)

\* C11: in a session on a local driver, list_transponders, delete_transponder
\* and the trifle://transponders resource fail with 'transponders are only
\* available for api drivers', whatever the id argument is, and no backend
\* call is made.
C11_LocalTranspondersUnsupported ==
    (pc = "transponders" /\ state.Local # <<>>) =>
        /\ response[1].err = "transponders are only available for api drivers"
        /\ response[1].payload = <<>>
        /\ calls = <<>>

\* delete_transponder with a blank id was refused for the driver, not for the id.
C11_Witness ==
    /\ pc = "transponders"
    /\ state.Driver = "sqlite"
    /\ req.name = "delete_transponder"
    /\ req.id = Str(" ")
    /\ response[1].err = OnlyForAPI

\* The metric key the path of a URI of the model names.
C12_Key(uri) ==
    IF uri \in {"trifle://metrics/k", "trifle://metrics/k?from=2024-01-01T00:00:00Z",
                "trifle://metrics/k?from=2024-01-01T00:00:00Z&to=2024-01-02T00:00:00Z&granularity=1d"}
    THEN "k" ELSE ""

\* C12: readResource fails without a backend call for a URI that does not
\* parse, whose scheme is not trifle or whose host is not source, transponders
\* or metrics; for host metrics it is fetchSeries for the key of the path, or
\* listMetrics when the path names no key, called with the from, to and
\* granularity of the query.
C12_ReadResourceRouting ==
    pc = "readResource" =>
        LET uri == req.uri
            p == urlParse(uri)
            r == response[1]
            args == WithArgs([from |-> Str(p.from), to |-> Str(p.to),
                              granularity |-> Str(p.granularity)])
            call == IF C12_Key(uri) # ""
                    THEN fetchSeriesPayload(state, [args EXCEPT !["key"] = Str(C12_Key(uri))],
                                            req.reply)
                    ELSE listMetricsPayload(state, args, req.reply)
        IN  /\ (p.err # "" \/ p.Scheme # "trifle"
                   \/ p.Host \notin {"source", "transponders", "metrics"})
                => (r.err # "" /\ r.result = <<>> /\ calls = <<>>)
            /\ (p.err = "" /\ p.Scheme = "trifle" /\ p.Host = "metrics")
                => /\ r.err = call.err
                   /\ calls = call.calls
                   /\ call.err = "" => r.result = <<resourceResult(uri, call.payload[1])>>
                   /\ (call.err = "" /\ C12_Key(uri) # "")
                        => r.result[1].content[1].text.json.metric_key = "k"
                   /\ (call.err = "" /\ C12_Key(uri) = "")
                        => "paths" \in DOMAIN r.result[1].content[1].text.json

\* The series of key k was read for the time range and granularity of the query.
C12_Witness ==
    /\ pc = "readResource"
    /\ req.uri = "trifle://metrics/k?from=2024-01-01T00:00:00Z&to=2024-01-02T00:00:00Z&granularity=1d"
    /\ response[1].err = ""
    /\ response[1].result[1].content[1].text.json.metric_key = "k"
    /\ response[1].result[1].content[1].text.json.timeframe.from = "2024-01-01T00:00:00Z"
    /\ response[1].result[1].content[1].text.json.timeframe.to = "2024-01-02T00:00:00Z"
    /\ response[1].result[1].content[1].text.json.timeframe.granularity = "1d"

\* A local aggregate call whose key, value path, time range and granularity
\* were accepted and whose series was fetched.
IsLocalAggregate == pc = "aggregate" /\ state.Local # <<>>

\* C13: a local aggregate query fails with 'no data available for path ...'
\* when the series has no available paths, with 'unknown path: ...' when it has
\* some but not the value path, and has status ok only when the value path is
\* available; no data is reported before unknown path.
C13_AggregatePathErrors ==
    IsLocalAggregate =>
        LET valuePath == req.args["value_path"].v
            available == req.series.available
            r == response[1]
            IsAvailable == \E i \in 1..Len(available) : available[i] = valuePath
        IN  /\ Len(available) = 0
                => r.err = "no data available for path " \o valuePath
                           \o " in the selected timeframe"
            /\ (Len(available) > 0 /\ ~IsAvailable)
                => r.err = "unknown path: " \o valuePath
            /\ r.err = "" => (IsAvailable /\ r.payload[1].status = "ok")
            /\ calls = <<"Values">>

\* The series has the path q only and the aggregate of p was refused as unknown.
C13_Witness ==
    /\ IsLocalAggregate
    /\ req.series.available = <<"q">>
    /\ req.args["value_path"].v = "p"
    /\ response[1].err = "unknown path: p"

\* A call of a local query in one of its three modes.
IsLocalQuery == pc \in {"aggregate", "format"} /\ state.Local # <<>>

\* The elements of a list.
Elements(q) == {q[i] : i \in 1..Len(q)}

\* C14: a local query payload with status ok, in aggregate, timeline and
\* category mode, has a non-empty matched_paths whose elements are all in its
\* available_paths; when no key of the reshaped result is an available path the
\* query fails.
C14_MatchedPathsWithinAvailable ==
    IsLocalQuery =>
        LET r == response[1]
        IN  /\ r.err = ""
                => /\ r.payload[1].status = "ok"
                   /\ r.payload[1].matched_paths # <<>>
                   /\ Elements(r.payload[1].matched_paths)
                         \subseteq Elements(r.payload[1].available_paths)
                   /\ r.payload[1].available_paths = req.series.available
            /\ (pc = "format"
                /\ Elements(req.series.formatted) \cap Elements(req.series.available) = {})
                => (r.err # "" /\ r.payload = <<>>)

\* Of the keys q and p of a timeline only p is available, and only p is matched.
C14_Witness ==
    /\ IsLocalQuery
    /\ pc = "format"
    /\ req.mode = "timeline"
    /\ req.series.formatted = <<"q", "p">>
    /\ req.series.available = <<"p">>
    /\ response[1].err = ""
    /\ response[1].payload[1].matched_paths = <<"p">>

\* The position of a string of the model in lexicographic order.
Rank(s) == CHOOSE i \in 1..Len(SortedStrings) : SortedStrings[i] = s

\* A list in strictly ascending lexicographic order, hence without duplicates.
IsAscending(q) == \A i, j \in 1..Len(q) : i < j => Rank(q[i]) < Rank(q[j])

\* C15: in every local query payload with status ok, available_paths and
\* matched_paths are in ascending lexicographic order without duplicates,
\* whatever the series library reported.
C15_PathListsSortedAndUnique ==
    (IsLocalQuery /\ response[1].err = "") =>
        /\ IsAscending(response[1].payload[1].matched_paths)
        /\ IsAscending(response[1].payload[1].available_paths)

\* C15 as the code has it: matched_paths is in ascending lexicographic order
\* without duplicates, whatever the library reported, and available_paths is
\* the list the library reported, in its order and with its repetitions.
C15_MatchedSortedAvailableAsReported ==
    (IsLocalQuery /\ response[1].err = "") =>
        /\ IsAscending(response[1].payload[1].matched_paths)
        /\ response[1].payload[1].available_paths = req.series.available

\* The library reported the keys and the paths as q, p: matched_paths is p, q
\* and available_paths is q, p.
C15_Witness ==
    /\ IsLocalQuery
    /\ pc = "format"
    /\ req.series.formatted = <<"q", "p">>
    /\ req.series.available = <<"q", "p">>
    /\ response[1].err = ""
    /\ response[1].payload[1].matched_paths = <<"p", "q">>
    /\ response[1].payload[1].available_paths = <<"q", "p">>

\* C16: a local aggregate payload with status ok has a non-empty values list
\* without null, a count equal to the length of values, a value field equal to
\* the first of the values when slices is 1 and no value field when slices is
\* greater than 1; the sum of a series whose aggregation is the single value 5,
\* with slices 1, has value 5 and values [5].
C16_AggregateValues ==
    (IsLocalAggregate /\ response[1].err = "") =>
        LET payload == response[1].payload[1]
        IN  /\ payload.values # <<>>
            /\ \A i \in 1..Len(payload.values) : payload.values[i] # Null
            /\ payload.values = SelectSeq(req.series.aggregate, LAMBDA x : x # Null)
            /\ payload.count = Len(payload.values)
            /\ payload.slices = 1 => payload.value = <<payload.values[1]>>
            /\ payload.slices > 1 => payload.value = <<>>
            /\ (payload.aggregator = "sum" /\ payload.slices = 1
                /\ req.series.aggregate = <<Num("5")>>)
                => (payload.value = <<Num("5")>> /\ payload.values = <<Num("5")>>)

\* The sum over a series with the single value 5, slices left at 1.
C16_Witness ==
    /\ IsLocalAggregate
    /\ req.args["slices"] = Absent
    /\ req.args["aggregator"] = Str("sum")
    /\ req.series.available = <<"p">>
    /\ req.series.aggregate = <<Num("5")>>
    /\ response[1].err = ""
    /\ response[1].payload[1].value = <<Num("5")>>
    /\ response[1].payload[1].values = <<Num("5")>>
    /\ response[1].payload[1].count = 1

\* C17: for every query, local and remote, the slice count handed to the
\* aggregation or reshaping, posted to the remote API and reported in the
\* payload is at least 1.  A remote request that carries no slices member is
\* not counted against the statement.
C17_SlicesAtLeastOne ==
    (pc \in {"aggregate", "format"} /\ response[1].err = "") =>
        IF state.Local # <<>>
        THEN response[1].payload[1].slices >= 1
        ELSE LET posted == response[1].payload[1].request.slices
             IN  \/ posted = <<>>
                 \/ /\ posted[1].t = "number"
                    /\ Atoi(posted[1].v) # <<>>
                    /\ Atoi(posted[1].v)[1] >= 1

\* A write reached the backend: Track of a local driver, POST of the remote one.
WriteReached == \E i \in 1..Len(calls) : calls[i] \in {"Track", "PostMetrics"}

\* The key is non-blank and at, when supplied, is an RFC3339 timestamp.
KeyAndAtValid(args) ==
    /\ TrimSpace(getStringArg(args, "key")) # ""
    /\ \/ TrimSpace(getStringArg(args, "at")) = ""
       \/ ParsesRFC3339(TrimSpace(getStringArg(args, "at")))

\* C18: on the local and on the remote backend, writeMetric writes only if key
\* is non-blank, values is present, non-null and a JSON object, and at, when
\* supplied, is an RFC3339 timestamp; otherwise it fails without a write; an
\* omitted at is the current UTC time.
C18_WriteMetricValidated ==
    pc = "writeMetric" =>
        /\ WriteReached
            => (KeyAndAtValid(req.args) /\ req.args["values"].t = "object")
        /\ ~(KeyAndAtValid(req.args) /\ req.args["values"].t = "object")
            => response[1].err # ""
        /\ (response[1].err = "" /\ TrimSpace(getStringArg(req.args, "at")) = "")
            => response[1].payload[1].data.at = NowRFC3339

\* The outcome of resolveTimeRange the statement prescribes for a pair, given
\* what counts as blank, what is parsed and what is returned.
TimeRangeOutcome(from, to, r) ==
    /\ (from = "" /\ to = "")
        => (r.err = "" /\ r.from = DayBeforeNowRFC3339 /\ r.to = NowRFC3339)
    /\ ((from = "") # (to = "")) => r.err # ""
    /\ (from # "" /\ to # "" /\ ~(ParsesRFC3339(from) /\ ParsesRFC3339(to)))
        => r.err # ""
    /\ (from # "" /\ to # "" /\ ParsesRFC3339(from) /\ ParsesRFC3339(to))
        => (r.err = "" /\ r.from = from /\ r.to = to)

\* C19: resolveTimeRange returns [now-24h, now] when from and to are both
\* blank, fails when exactly one is blank, fails when either does not parse as
\* RFC3339 and otherwise returns the supplied pair unchanged, whatever the order
\* of from and to.
C19_TimeRangeAsSupplied ==
    pc = "resolveTimeRange" =>
        /\ (TrimSpace(req.from) = "" /\ TrimSpace(req.to) = "")
            => (response[1].err = "" /\ response[1].from = DayBeforeNowRFC3339
                /\ response[1].to = NowRFC3339)
        /\ ((TrimSpace(req.from) = "") # (TrimSpace(req.to) = "")) => response[1].err # ""
        /\ (TrimSpace(req.from) # "" /\ TrimSpace(req.to) # "")
            => TimeRangeOutcome(req.from, req.to, response[1])

\* C19 as the code has it: the same of the pair with surrounding white space
\* removed: blank is empty after trimming, the trimmed values are parsed and the
\* trimmed pair is returned.
C19_TimeRangeTrimmed ==
    pc = "resolveTimeRange" =>
        TimeRangeOutcome(TrimSpace(req.from), TrimSpace(req.to), response[1])

\* A pair with from later than to was returned as it is.
C19_Witness ==
    /\ pc = "resolveTimeRange"
    /\ req.from = "2024-01-02T00:00:00Z"
    /\ req.to = "2024-01-01T00:00:00Z"
    /\ response[1].err = ""
    /\ response[1].from = "2024-01-02T00:00:00Z"
    /\ response[1].to = "2024-01-01T00:00:00Z"

\* C20: validateGranularity fails for every string that does not match
\* ^\d+(s|m|h|d|w|mo|q|y)$; for a matching string it returns the lower-cased
\* input unchanged, and validating its result again returns the same result.
C20_GranularityAsGiven ==
    pc = "validateGranularity" =>
        /\ ~granularityPattern(req.value) => response[1].err # ""
        /\ granularityPattern(req.value)
            => /\ response[1].err = ""
               /\ response[1].value = ToLower(req.value)
               /\ validateGranularity(response[1].value).err = ""
               /\ validateGranularity(response[1].value).value = response[1].value

\* C20 as the code has it: the value is trimmed and lower-cased first; it fails
\* exactly when that normal form does not match the pattern, returns the normal
\* form otherwise, and validating the result again returns the same result.
C20_GranularityNormalized ==
    pc = "validateGranularity" =>
        LET normalized == ToLower(TrimSpace(req.value))
        IN  /\ ~granularityPattern(normalized)
                => (response[1].err # "" /\ response[1].value = "")
            /\ granularityPattern(normalized)
                => /\ response[1].err = ""
                   /\ response[1].value = normalized
                   /\ validateGranularity(response[1].value).err = ""
                   /\ validateGranularity(response[1].value).value = response[1].value

\* 1H does not match the pattern and is accepted as 1h.
C20_Witness ==
    /\ pc = "validateGranularity"
    /\ req.value = "1H"
    /\ response[1].err = ""
    /\ response[1].value = "1h"

\* The granularity the spec gives a request without an explicit one.
C21_Expected(default, available) ==
    IF default # "" THEN default
    ELSE IF "1h" \in Elements(available) THEN "1h"
    ELSE IF "1d" \in Elements(available) THEN "1d"
    ELSE IF available # <<>> THEN Head(available)
    ELSE "1h"

\* resolveGranularity was called without an explicit granularity and the source,
\* when it was asked, answered.
C21_Defaulted ==
    /\ pc = "resolveGranularity"
    /\ TrimSpace(req.granularity) = ""
    /\ (req.resolver = "remote" => req.source = "")

\* C21: without an explicit granularity the resolved one is the default the
\* remote source declares, else "1h" if the available list holds it wherever it
\* stands, else "1d" likewise, else the first of the list, else "1h"; the local
\* resolver ignores any default, and both resolvers give the same value on the
\* same list when the source declares no default.
C21_DefaultGranularity ==
    C21_Defaulted =>
        /\ response[1].err = ""
        /\ req.resolver = "remote" =>
              /\ response[1].value = C21_Expected(req.default, req.available)
              /\ req.default = "" =>
                    response[1].value =
                        resolveGranularityLocal("", [Granularities |-> req.available]).value
        /\ req.resolver = "local" =>
              /\ response[1].value = C21_Expected("", req.available)
              /\ response[1].value =
                    resolveGranularity(Reply("", "", req.available, "", "object",
                                             NoSeries)).value

\* "1h" is chosen although "1d" stands before it in the list.
C21_Witness ==
    /\ C21_Defaulted
    /\ req.default = ""
    /\ req.available = <<"15m", "1d", "1h">>
    /\ response[1].value = "1h"

\* The message carries one of "no such table", "doesn't exist", "relation",
\* in any letter case.
C22_HasSignature(message) ==
    message \in {"SQL logic error: no such table: metrics",
                 "ERROR: relation \"metrics\" does not exist",
                 "Error 1146 (42S02): Table 'db.metrics' doesn't exist",
                 "NO SUCH TABLE: metrics", "correlation id rejected"}

C22_Target(targetName) == IF targetName \in {"", " "} THEN "trifle_stats" ELSE targetName

\* What the spec gives for a driver that is named d after normalization.
C22_Suggested(message, d, targetName) ==
    IF ~C22_HasSignature(message) THEN message
    ELSE IF d \in {"sqlite", "postgres", "mysql"}
    THEN message \o " (run: trifle metrics setup --driver " \o d \o " --table "
                 \o C22_Target(targetName) \o ")"
    ELSE IF d = "mongo"
    THEN message \o " (run: trifle metrics setup --driver mongo)"
    ELSE message

\* C22: maybeSuggestSetup returns the error it was given (nil for nil) unless
\* the message carries a missing-object signature; then sqlite, postgres and
\* mysql get the message followed by the setup command with the table
\* (trifle_stats when blank), mongo (the normalized mongodb) the command without
\* a table, and every other driver name (redis) the error unchanged; the result
\* always begins with the original message.
C22_SetupHintByDriver ==
    pc = "maybeSuggestSetup" =>
        /\ response[1].err =
              C22_Suggested(req.err, normalizeDriverName(req.driverName), req.targetName)
        /\ \E hint \in {""} \cup
               {" (run: trifle metrics setup --driver " \o n \o " --table " \o t \o ")" :
                   n \in {"sqlite", "postgres", "mysql"}, t \in {"trifle_stats", "metrics"}}
               \cup {" (run: trifle metrics setup --driver mongo)"} :
              response[1].err = req.err \o hint

\* A missing sqlite table gets the setup command for that table appended.
C22_Witness ==
    /\ pc = "maybeSuggestSetup"
    /\ req.err = "SQL logic error: no such table: metrics"
    /\ req.driverName = "sqlite"
    /\ req.targetName = "metrics"
    /\ response[1].err = "SQL logic error: no such table: metrics (run: trifle metrics setup --driver sqlite --table metrics)"

C23_LocalNames == {"sqlite", "postgres", "mysql", "redis", "mongo", "mongodb"}

\* The driver name without surrounding whitespace and in lower case.
C23_Name(driver) ==
    CASE driver \in {"", " "} -> ""
      [] driver \in {"api", "API", " api "} -> "api"
      [] driver = "SQLite" -> "sqlite"
      [] driver = "MongoDB" -> "mongodb"
      [] OTHER -> driver

\* C23: exactly sqlite, postgres, mysql, redis, mongo and mongodb (in any letter
\* case, surrounding whitespace ignored) select a local backend, api and the
\* empty name the remote one, and a server started with any other non-empty
\* driver name fails with a configuration error without a request to the remote
\* API or to a local store.
C23_UnknownDriverIsRejected ==
    pc = "runMCP" =>
        /\ C23_Name(req.driver) \in C23_LocalNames /\ req.session # <<>> =>
              req.session[1].Local # <<>> /\ ~req.session[1].API
        /\ C23_Name(req.driver) \in {"api", ""} /\ req.session # <<>> =>
              req.session[1].Local = <<>> /\ req.session[1].API
        /\ C23_Name(req.driver) \notin C23_LocalNames \cup {"api", ""} =>
              /\ req.session = <<>>
              /\ response[1].err # "" /\ response[1].payload = <<>> /\ calls = <<>>

C24_OnWord(mode) == mode \in {"on", "ON", "always"}
C24_OffWord(mode) == mode \in {"off", " off ", "never"}

\* The drivers an allow-list names; none when the list is empty.
C24_Named(drivers) ==
    CASE drivers \in {"", " , "} -> {}
      [] drivers = "sqlite,postgres" -> {"sqlite", "postgres"}
      [] drivers \in {"sqlite,mysql", " SQLite , mysql"} -> {"sqlite", "mysql"}
      [] drivers = "MongoDB" -> {"mongo"}
      [] drivers = "redis" -> {"redis"}

C24_ByMode(mode, driverName) ==
    \/ C24_OnWord(mode)
    \/ ~C24_OffWord(mode) /\ driverName \in {"sqlite", "postgres", "mysql"}

\* C24: after applyBufferOptions buffering is enabled exactly when the mode is
\* an "on" word, or is neither an "on" nor an "off" word and the driver is
\* sqlite, postgres or mysql, and moreover the allow-list is empty or names the
\* driver; an "off" word always disables, an allow-list never enables what the
\* mode alone would not, and duration, size, aggregate and async are the options'.
C24_BufferingEnabledExactlyWhen ==
    pc = "applyBufferOptions" =>
        LET after == response[1].cfg
            named == C24_Named(req.opts.BufferDrivers)
        IN  /\ after.BufferEnabled =
                  (C24_ByMode(req.opts.BufferMode, req.driverName)
                   /\ (named = {} \/ req.driverName \in named))
            /\ C24_OffWord(req.opts.BufferMode) => ~after.BufferEnabled
            /\ after.BufferEnabled => C24_ByMode(req.opts.BufferMode, req.driverName)
            /\ after.BufferDuration = req.opts.BufferDuration
            /\ after.BufferSize = req.opts.BufferSize
            /\ after.BufferAggregate = req.opts.BufferAggregate
            /\ after.BufferAsync = req.opts.BufferAsync

\* Mode on, but the allow-list leaves mysql out: buffering is off and the
\* settings are the options'.
C24_Witness ==
    /\ pc = "applyBufferOptions"
    /\ req.opts.BufferMode = "on"
    /\ req.opts.BufferDrivers = "sqlite,postgres"
    /\ req.driverName = "mysql"
    /\ req.opts.BufferSize = 10
    /\ ~response[1].cfg.BufferEnabled
    /\ response[1].cfg.BufferSize = 10

\* doJSON was called and the server answered.
C25_Answered ==
    /\ pc = "doJSON"
    /\ calls = <<"Do">>
    /\ req.resp.transport = ""
    /\ req.resp.read = ""

\* C25: every remote API call whose response status is outside 200..299
\* returns an error that carries the status and the body, and leaves the
\* caller's output value undecoded; only 2xx responses are successes.
C25_Non2xxIsError ==
    C25_Answered /\ req.resp.StatusCode \notin 200..299 =>
        /\ response[1].err \in
              {"api request failed with status " \o ToString(req.resp.StatusCode),
               "api request failed with status " \o ToString(req.resp.StatusCode)
                   \o ": " \o TrimSpace(req.resp.Body)}
        /\ response[1].out = <<>>

\* list_metrics or fetch_series was run on both sessions and both succeeded.
C26_BothAnswered ==
    /\ pc = "listFetch"
    /\ response[1].remote.err = ""
    /\ response[1].local.err = ""

RECURSIVE C26_Sum(_, _)
C26_Sum(pairs, key) ==
    IF pairs = <<>> THEN 0
    ELSE (IF Head(pairs)[1] = key THEN Head(pairs)[2] ELSE 0) + C26_Sum(Tail(pairs), key)

\* The sum of the counters of a key over all value-maps.
RECURSIVE C26_Total(_, _)
C26_Total(values, key) ==
    IF values = <<>> THEN 0
    ELSE (IF Head(values).keys.t = "object" THEN C26_Sum(Head(values).keys.v, key) ELSE 0)
         + C26_Total(Tail(values), key)

\* What the claim says of one payload, whichever backend it came from.
C26_PayloadAsDescribed(payload) ==
    /\ payload.status = "ok"
    /\ req.name = "fetch_series" =>
          /\ payload.metric_key =
                (IF req.args["key"] \in {Absent, Str(" ")} THEN systemMetricsKey ELSE "k")
          /\ payload.data.values = req.values
    /\ req.name = "list_metrics" =>
          /\ IsAscending([i \in 1..Len(payload.paths) |-> payload.paths[i].metric_key])
          /\ \A i \in 1..Len(payload.paths) :
                payload.paths[i].observations =
                    C26_Total(req.values, payload.paths[i].metric_key)
          /\ \A k \in {"login", "signup"} :
                C26_Total(req.values, k) > 0 =>
                    \E i \in 1..Len(payload.paths) : payload.paths[i].metric_key = k
          /\ payload.total_paths = Len(payload.paths)

\* C26 as stated: a remote and a local backend that return the same series give
\* list_metrics and fetch_series payloads with the same fields and values: the
\* same resolved timeframe, the same metric_key, paths unique per key, sorted and
\* carrying the per-key sums, and total_paths the number of paths.
C26_SamePayloadOnBothBackends ==
    C26_BothAnswered =>
        /\ response[1].remote.payload = response[1].local.payload
        /\ C26_PayloadAsDescribed(response[1].remote.payload[1])
        /\ C26_PayloadAsDescribed(response[1].local.payload[1])

\* The request names its granularity, or the remote source declares no default
\* and offers the granularities the local configuration offers.
C26_SameGranularitySource ==
    \/ req.args["granularity"] # Absent
    \/ req.default = "" /\ req.available = req.granularities

\* C26, amended: both payloads are as described and equal in every field but
\* the granularity of the timeframe, and equal in that too when the request
\* names a granularity or both backends offer the same granularities and the
\* remote source declares no default.
C26_SamePayloadButDefaultGranularity ==
    C26_BothAnswered =>
        LET remote == response[1].remote.payload[1]
            local == response[1].local.payload[1]
        IN  /\ C26_PayloadAsDescribed(remote)
            /\ C26_PayloadAsDescribed(local)
            /\ [remote EXCEPT !.timeframe.granularity = local.timeframe.granularity] = local
            /\ C26_SameGranularitySource => remote = local

\* list_metrics without a granularity on two backends that offer the same ones:
\* both report login 4 and signup 2 in the same timeframe.
C26_Witness ==
    /\ C26_BothAnswered
    /\ req.name = "list_metrics"
    /\ req.args["granularity"] = Absent
    /\ req.default = ""
    /\ req.available = <<"1d", "1h">>
    /\ req.granularities = <<"1d", "1h">>
    /\ response[1].remote.payload = response[1].local.payload
    /\ response[1].local.payload[1].timeframe.granularity = "1h"
    /\ response[1].local.payload[1].paths =
          <<[metric_key |-> "login", observations |-> 4],
            [metric_key |-> "signup", observations |-> 2]>>

(***************************************************************************)
(* Properties of the request loop on a stdout that may fail                 *)
(***************************************************************************)

\* The four ways serveMCP returns.
C27_AfterExit ==
    /\ pc = "encode" /\ req.method = "exit"
    /\ out' = Append(out, Line(nread, response[1]))
    /\ ret' = "nil"

C27_AtEndOfInput ==
    pc = "decode" /\ pc' = "eof" /\ ret' = "nil" /\ out' = out /\ nread' = nread

C27_OnUndecodable ==
    pc = "decode" /\ pc' = "undecodable" /\ ret' = "error" /\ out' = out /\ nread' = nread

C27_OnFailedWrite ==
    pc = "encode" /\ pc' = "unwritable" /\ ret' = "error" /\ out' = out

\* C27: serveMCP returns only after answering an exit request, at the end of
\* the input (nil), on a request that cannot be decoded (the error, nothing
\* written for it) or when writing a response fails; once it has returned no
\* request is processed, and no step that handles a request, whatever error the
\* tool, the resource or the protocol gave, makes it return.
C27_OnlyFourWaysToTerminate ==
    [][/\ (ret = "" /\ ret' # "") =>
              (C27_AfterExit \/ C27_AtEndOfInput \/ C27_OnUndecodable \/ C27_OnFailedWrite)
       /\ ret # "" => FALSE
       /\ pc = "dispatch" => ret' = ""]_vars

\* The second response could not be written after the first one was: the loop
\* had gone on after the first request and returns the write error now.
C27_Witness ==
    /\ pc = "unwritable"
    /\ ret = "error"
    /\ nread = 2
    /\ Len(out) = 1
    /\ response # <<>>
    /\ response[1].result # <<>> /\ response[1].result[1].isError

\* C28: a query that is rejected for a missing key, value_path or (in aggregate
\* mode) aggregator is rejected before any backend call: neither a remote
\* request, the source lookup for the default granularity included, nor a
\* local series fetch was made for it.
C28_RejectedBeforeBackendCall ==
    (/\ pc = "query"
     /\ response[1].err \in {"key is required", "value_path is required",
                             "aggregator is required"})
        => calls = <<>>

\* C29: the granularity that is sent to the backend and reported in the
\* timeframe of a payload matches ^\d+(s|m|h|d|w|mo|q|y)$, whether the request
\* named it or it was resolved from the remote source metadata or from the
\* granularities of the local configuration.
C29_GranularityMatchesPattern ==
    /\ (pc = "resolveGranularity" /\ response[1].err = "")
          => granularityPattern(response[1].value)
    /\ pc = "listFetch" =>
          /\ response[1].remote.err = "" =>
                granularityPattern(response[1].remote.payload[1].timeframe.granularity)
          /\ response[1].local.err = "" =>
                granularityPattern(response[1].local.payload[1].timeframe.granularity)

\* The host of a resource URI, catalog entries and requests alike.
C30_Host(uri) ==
    CASE uri = "trifle://source" -> "source"
      [] uri \in {"trifle://metrics", "trifle://metrics/k", "trifle://metrics/{key}"} -> "metrics"
      [] uri = "trifle://transponders" -> "transponders"
      [] uri = "trifle://keys" -> "keys"
      [] uri = "trifle://dashboards/k" -> "dashboards"

\* The dispatcher turned the name down: it does not know it, or the session's
\* driver does not offer it.
C30_TurnedDown(err, unknown) == err \in {unknown, OnlyForAPI}

\* C30: in every driver mode each tool name tools/list returns is accepted by
\* tools/call (it fails neither as unknown tool nor as available for api
\* drivers only), each name it does not return fails when called, each host
\* resources/list advertises is accepted by resources/read and each other host
\* is rejected.
C30_CatalogAndDispatcherAgree ==
    pc = "catalog" =>
        /\ req.kind = "tool" =>
              IF req.name \in Elements(req.listed)
              THEN ~C30_TurnedDown(response[1].err, "unknown tool: " \o req.name)
              ELSE C30_TurnedDown(response[1].err, "unknown tool: " \o req.name)
        /\ req.kind = "resource" =>
              IF C30_Host(req.name) \in {C30_Host(u) : u \in Elements(req.listed)}
              THEN ~C30_TurnedDown(response[1].err,
                                   "unknown resource: " \o C30_Host(req.name))
              ELSE C30_TurnedDown(response[1].err,
                                  "unknown resource: " \o C30_Host(req.name))

\* On a local session list_transponders is not listed and is turned down.
C30_Witness ==
    /\ pc = "catalog"
    /\ state.Local # <<>>
    /\ req.kind = "tool"
    /\ req.name = "list_transponders"
    /\ req.name \notin Elements(req.listed)
    /\ Len(req.listed) = 6
    /\ response[1].err = OnlyForAPI
====
